---- MODULE Spec2Model ----
(***************************************************************************)
(* Model of the YakDev agent Worker:                                       *)
(*   - the chat turn (index.js processMessage / handleCommand,             *)
(*     agent.js runAgent with its tool-use loop and conversation history), *)
(*   - the tool executor (tools.js executeTool),                           *)
(*   - the scheduled daily briefing with its KV cache (briefing.js).       *)
(* Texts are TLA+ strings; JSON objects are records; arrays are sequences. *)
(***************************************************************************)
EXTENDS Integers, Sequences, FiniteSets, TLC

\* ---- program constants
MAX_HISTORY_PAIRS == 20
MAX_ITERATIONS == 10
STALE_DAYS_THRESHOLD == 3

FallbackText == "Done - but I couldn't generate a response. Something might be off."
ClearedText == "Conversation history cleared. Fresh start."
EscalationText == "SNAP OUT OF IT, LOCK IN!"
NoIssuesText == "No active issues in Linear. Either you're crushing it or something is wrong."

\* ---- bounds of the model -----------------------
\* chat invocations explored by the agent-loop specification
MaxTurns == 2
\* chat invocations explored by the conversation-memory specification
MaxMemTurns == 22
\* injected faults (failed external calls) per behaviour
MaxFaults == 2
\* scheduled runs explored by the briefing specification
MaxRuns == 6
\* issues in a snapshot handed to the fingerprint function
MaxSnapshotLen == 2
\* executions explored by the tool-executor specification
MaxExec == 2

\* chat invocations (waitUntil tasks); the sequential specifications run one
Procs == {1, 2}
SeqProcs == {1}

VARIABLES
  kvHistory,      \* KV key "conversation_history": [present, value]
  kvCache,        \* KV key "briefing_cache": [present, value]
  tracker,        \* Linear: identifier -> issue fields
  turnNo,         \* number of chat invocations started so far
  faults,         \* number of injected faults so far
  pc,             \* pc[p]: position of invocation p
  update,         \* update[p]: the parsed Telegram update
  ctx,            \* ctx[p]: the Linear context fetched for the turn
  history,        \* history[p]: runAgent's local `history`
  messages,       \* messages[p]: runAgent's local `messages`
  response,       \* response[p]: runAgent's local `response`
  iterations,     \* iterations[p]: runAgent's local `iterations`
  blockIdx,       \* blockIdx[p]: position of the for-loop over response.content
  toolResults,    \* toolResults[p]: runAgent's local `toolResults`
  assistantText,  \* assistantText[p]: runAgent's local `assistantText`
  outbox,         \* outbox[p]: texts sent to the chat by the invocation
  outcome,        \* outcome[p]: how the last invocation ended
  modelCalls,     \* modelCalls[p]: callClaude requests issued by the invocation
  kvWrites,       \* kvWrites[p]: writes of the history key by the invocation
  script,         \* script[p]: which operations the model asks for, round by round
  allToolUse,     \* allToolUse[p]: every response so far had stop_reason tool_use
  today,          \* the day of the latest scheduled run (days since deployment)
  bKind,          \* how the latest briefing run ended
  bSent,          \* texts the latest briefing run sent to the chat
  bModelCalls,    \* generateBriefing calls of the latest briefing run
  bRead,          \* the cache record as the latest briefing run read it
  genText,        \* the text the model returned at the latest regeneration
  hits,           \* cache-hit runs since the latest regeneration
  lastHash,       \* [valid, hash]: fingerprint of the latest run, if it had one
  sameRuns,       \* latest consecutive runs that had that same fingerprint
  saved,          \* number of turns that have saved their exchange so far
  streak,         \* exchanges saved since the history was last empty
  fpIn,           \* two snapshots handed to hashIssues, and how they differ
  fpOut,          \* the fingerprints hashIssues returned for them
  workspace,      \* Linear: the team's labels and projects, and the comments
  execLog,        \* the last two executions of executeTool applied on its own
  fetched,        \* fetched[p]: the snapshot fetches of the turn that have resolved
  env,            \* the Worker's bindings WEBHOOK_SECRET and TELEGRAM_CHAT_ID
  http,           \* the latest request to the fetch handler and its response
  fileCache,      \* briefing/cache.json of the original script: [present, value]
  scriptRun       \* the latest run of the original script: its day, decision and text

\* ---- strings----------
\* String.prototype.toUpperCase on the texts of the model
ToUpperCase(s) ==
  CASE s \in {"yak-1", "Yak-1", "YAK-1"} -> "YAK-1"
    [] s \in {"yak-2", "Yak-2", "YAK-2"} -> "YAK-2"
    [] s \in {"yak-3", "Yak-3", "YAK-3"} -> "YAK-3"
    [] OTHER -> s

\* String.prototype.toLowerCase on the texts of the model
ToLowerCase(s) ==
  CASE s \in {"done", "Done", "DONE"} -> "done"
    [] s \in {"todo", "Todo", "TODO"} -> "todo"
      [] s \in {"blocked", "Blocked"} -> "blocked"
    [] s \in {"urgent", "Urgent", "URGENT"} -> "urgent"
    [] s \in {"bug", "Bug", "BUG"} -> "bug"
    [] s \in {"later", "Later"} -> "later"
    [] s \in {"zach", "Zach"} -> "zach"
    [] s \in {"ana", "Ana"} -> "ana"
    [] s \in {"za", "ZA"} -> "za"
    [] s \in {"portal", "Portal"} -> "portal"
    [] s \in {"client portal", "Client Portal"} -> "client portal"
    [] s \in {"/help", "/Help"} -> "/help"
    [] OTHER -> s

\* Array.prototype.join
RECURSIVE Join(_, _)
Join(strs, sep) ==
  IF Len(strs) = 0 THEN ""
  ELSE IF Len(strs) = 1 THEN strs[1]
  ELSE strs[1] \o sep \o Join(Tail(strs), sep)

\* Array.prototype.slice(-n): the last n elements (all of them when fewer)
SliceLast(seq, n) ==
  IF Len(seq) <= n THEN seq ELSE SubSeq(seq, Len(seq) - n + 1, Len(seq))

\* text.startsWith("/")
StartsWithSlash(text) == text \in {"/clear", "/help", "/Help", "/start", "/nope", "/briefing"}

\* ---- Linear (the tracker) and the context fetched from it
WorkflowStates == << [id |-> "s1", name |-> "Todo"], [id |-> "s2", name |-> "Done"] >>

\* a property the API returns as null, or a field missing from an object
Null == "<null>"

\* labels { nodes { id name } }
LabelUrgent == [id |-> "l1", name |-> "urgent"]
LabelBug == [id |-> "l2", name |-> "bug"]
LabelBugCapital == [id |-> "l3", name |-> "Bug"]
LabelLater == [id |-> "l4", name |-> "later"]

\* labels.nodes.map((l) => l.name)
LabelNames(issue) == [j \in 1..Len(issue.labels) |-> issue.labels[j].name]

Issue1 ==
  [id |-> "i1", identifier |-> "YAK-1", title |-> "Auth flow",
   description |-> "Login and logout", url |-> "https://linear.app/yak/issue/YAK-1",
   updatedAt |-> "2026-01-05", state |-> "Todo",
   priority |-> 2, assignee |-> "Zach", project |-> Null,
   labels |-> << LabelUrgent, LabelBug >>, dueDate |-> Null, parent |-> Null]

Issue2 ==
  [id |-> "i2", identifier |-> "YAK-2", title |-> "Billing",
   description |-> Null, url |-> "https://linear.app/yak/issue/YAK-2",
   updatedAt |-> "2026-01-06", state |-> "Done",
   priority |-> 4, assignee |-> "Ana", project |-> "Portal",
   labels |-> << LabelBug, LabelBugCapital, LabelUrgent >>,
   dueDate |-> "2026-02-15", parent |-> Null]

Issue3 ==
  [id |-> "i3", identifier |-> "YAK-3", title |-> "Staging",
   description |-> Null, url |-> "https://linear.app/yak/issue/YAK-3",
   updatedAt |-> "2026-01-07", state |-> "Todo",
   priority |-> 0, assignee |-> Null, project |-> "Portal",
   labels |-> << >>, dueDate |-> "2026-01-31", parent |-> Null]

InitTracker == << Issue1 >>

\* a lookup that falls back to the first element when it accepts none
FindFirstOrFirst(verdicts) ==
  IF \E i \in 1..Len(verdicts) : verdicts[i]
  THEN CHOOSE i \in 1..Len(verdicts) :
         verdicts[i] /\ \A j \in 1..(i - 1) : ~verdicts[j]
  ELSE IF Len(verdicts) > 0 THEN 1 ELSE 0

\* Array.prototype.find, given the callback's verdict on every element: the
\* index of the first element it accepts, 0 (undefined) if it accepts none
FindFirst(verdicts) ==
  IF \E i \in 1..Len(verdicts) : verdicts[i]
  THEN CHOOSE i \in 1..Len(verdicts) :
         verdicts[i] /\ \A j \in 1..(i - 1) : ~verdicts[j]
  ELSE 0

\* the elements of a sequence
Range(seq) == {seq[i] : i \in 1..Len(seq)}

\* ---- JSON values of a tool input: tagged, so that a missing or wrongly typed
\* parameter can stand where a string or a number is expected
Str(s) == [type |-> "string", val |-> s]
Num(n) == [type |-> "number", val |-> n]
Arr(a) == [type |-> "array", val |-> a]
JsNull == [type |-> "null"]
Undefined == [type |-> "undefined"]

\* input.name: undefined when the object has no such property
Prop(input, name) == IF name \in DOMAIN input THEN input[name] ELSE Undefined

\* the truthiness of a value
Truthy(v) ==
  CASE v.type = "string" -> v.val # ""
    [] v.type = "number" -> v.val # 0
    [] v.type = "array" -> TRUE
    [] OTHER -> FALSE

\* String.prototype.includes on lower-cased texts of the model
Includes(hay, needle) ==
  \/ needle = ""
  \/ needle = hay
  \/ <<hay, needle>> \in {<<"zach", "za">>, <<"client portal", "portal">>}

\* String.prototype.trim on the texts of the model
Trim(s) == IF s = "  " THEN "" ELSE s

\* ---- Linear: members, projects, and the mutations of linear.js.  The state
\* of Linear is [issues, labels, projects, comments]
Members ==
  << [id |-> "u1", name |-> "Zach", displayName |-> "zy"],
     [id |-> "u2", name |-> "Ana", displayName |-> "ana-i"] >>

TeamLabels == << LabelUrgent, LabelBug, LabelLater >>
TeamProjects == << [id |-> "p1", name |-> "Client Portal"] >>
TeamId == "team-yak"

InitWorkspace == [labels |-> TeamLabels, projects |-> TeamProjects, comments |-> << >>]

Linear(trk, ws) ==
  [issues |-> trk, labels |-> ws.labels, projects |-> ws.projects,
   comments |-> ws.comments]

\* dates Linear accepts as a TimelessDate
ValidDates == {"2026-01-31", "2026-02-15"}

PriorityLabel(p) ==
  CASE p = 0 -> "No priority" [] p = 1 -> "Urgent" [] p = 2 -> "High"
    [] p = 3 -> "Medium" [] OTHER -> "Low"

\* gql: the data of a response, or the error it throws
ApiOk(lin, value) == [ok |-> TRUE, linear |-> lin, value |-> value]
ApiError(lin, message) == [ok |-> FALSE, linear |-> lin, error |-> message]

\* the fate of the requests one tool execution issues: the failAt-th request
\* gets an HTTP error (0: none does); duplicate is what Linear does with a
\* label name that exists already
Fates ==
  [failAt : 0..3, duplicate : {"rejected", "created"}]
NoFault == [failAt |-> 0, duplicate |-> "rejected"]

\* the k-th request of the execution: its response unless the request fails
Request(fate, k, lin, reply) ==
  IF fate.failAt = k
  THEN ApiError(lin, "Linear API HTTP 500: Internal Server Error")
  ELSE reply

\* the fields of an IssueUpdateInput / IssueCreateInput as Linear validates them
ValidFields(lin, input) ==
  /\ "stateId" \in DOMAIN input =>
       \E k \in 1..Len(WorkflowStates) : WorkflowStates[k].id = input.stateId
  /\ "priority" \in DOMAIN input =>
       input.priority.type = "number" /\ input.priority.val \in 0..4
  /\ "assigneeId" \in DOMAIN input =>
       \E k \in 1..Len(Members) : Members[k].id = input.assigneeId
  /\ "labelIds" \in DOMAIN input =>
       \A j \in 1..Len(input.labelIds) :
         \E k \in 1..Len(lin.labels) : lin.labels[k].id = input.labelIds[j]
  /\ "dueDate" \in DOMAIN input =>
       \/ input.dueDate.type = "null"
       \/ input.dueDate.type = "string" /\ input.dueDate.val \in ValidDates
  /\ "title" \in DOMAIN input =>
       input.title.type = "string" /\ input.title.val # ""
  /\ "description" \in DOMAIN input => input.description.type = "string"

\* the issue with the given fields set
WithFields(lin, issue, input) ==
  [f \in DOMAIN issue |->
     CASE f = "state" /\ "stateId" \in DOMAIN input ->
            WorkflowStates[FindFirst([k \in 1..Len(WorkflowStates) |->
                             WorkflowStates[k].id = input.stateId])].name
       [] f = "priority" /\ "priority" \in DOMAIN input -> input.priority.val
       [] f = "assignee" /\ "assigneeId" \in DOMAIN input ->
            Members[FindFirst([k \in 1..Len(Members) |->
                      Members[k].id = input.assigneeId])].name
       [] f = "labels" /\ "labelIds" \in DOMAIN input ->
            [j \in 1..Len(input.labelIds) |->
               lin.labels[FindFirst([k \in 1..Len(lin.labels) |->
                            lin.labels[k].id = input.labelIds[j]])]]
       [] f = "dueDate" /\ "dueDate" \in DOMAIN input ->
            IF input.dueDate.type = "null" THEN Null ELSE input.dueDate.val
       [] f = "title" /\ "title" \in DOMAIN input -> input.title.val
       [] f = "description" /\ "description" \in DOMAIN input -> input.description.val
       [] f = "project" /\ "projectId" \in DOMAIN input ->
            lin.projects[FindFirst([k \in 1..Len(lin.projects) |->
                           lin.projects[k].id = input.projectId])].name
       [] f = "parent" /\ "parentId" \in DOMAIN input -> input.parentId
       [] OTHER -> issue[f]]

\* Linear holds the updated issue and returns it
IssueUpdated(lin, k, updated) == ApiOk([lin EXCEPT !.issues[k] = updated], updated)
IssueCreated(lin, created) == ApiOk([lin EXCEPT !.issues = Append(@, created)], created)

\* linear.js updateIssue: the issue with the given id gets the input's fields
updateIssue(lin, issueId, input) ==
  LET k == FindFirst([i \in 1..Len(lin.issues) |-> lin.issues[i].id = issueId])
  IN IF k = 0 THEN ApiError(lin, "Linear: Entity not found: Issue")
     ELSE IF ~ValidFields(lin, input)
     THEN ApiError(lin, "Linear: Argument Validation Error")
     ELSE IssueUpdated(lin, k, WithFields(lin, lin.issues[k], input))

\* linear.js createIssue: a new issue of the team, numbered after the others
createLinearIssue(lin, input) ==
  LET n == Len(lin.issues) + 1
      blank == [id |-> "i" \o ToString(n), identifier |-> "YAK-" \o ToString(n),
                title |-> "", description |-> Null,
                url |-> "https://linear.app/yak/issue/YAK-" \o ToString(n),
                updatedAt |-> "2026-01-08", state |-> WorkflowStates[1].name,
                priority |-> 0, assignee |-> Null, project |-> Null,
                labels |-> << >>, dueDate |-> Null, parent |-> Null]
  IN IF "title" \notin DOMAIN input \/ ~ValidFields(lin, input)
     THEN ApiError(lin, "Linear: Argument Validation Error")
     ELSE IssueCreated(lin, WithFields(lin, blank, input))

\* linear.js createComment
createComment(lin, issueId, body) ==
  IF body.type # "string" \/ body.val = ""
  THEN ApiError(lin, "Linear: Argument Validation Error")
  ELSE ApiOk([lin EXCEPT !.comments = Append(@, [issueId |-> issueId, body |-> body.val])],
             [body |-> body.val])

\* linear.js createProject
createLinearProject(lin, name, description) ==
  IF name.type # "string" \/ name.val = ""
  THEN ApiError(lin, "Linear: Argument Validation Error")
  ELSE LET project == [id |-> "p" \o ToString(Len(lin.projects) + 1), name |-> name.val]
       IN ApiOk([lin EXCEPT !.projects = Append(@, project)], project)

\* linear.js createLabel.  Whether Linear refuses a second label of the same
\* name or creates it is not decided by this repository: both are outcomes
createLabel(lin, teamId, name, duplicate) ==
  LET label == [id |-> "l-new" \o ToString(Len(lin.labels) + 1), name |-> name.val]
      exists == \E k \in 1..Len(lin.labels) : lin.labels[k].name = name.val
  IN IF name.type # "string" \/ name.val = ""
     THEN ApiError(lin, "Linear: Argument Validation Error")
     ELSE IF exists /\ duplicate = "rejected"
     THEN ApiError(lin, "Linear: Label name not unique")
     ELSE ApiOk([lin EXCEPT !.labels = Append(@, label)], label)

\* ---- tools.js: the tool executor
\* the identifier compared as it was given
findIssueExact(identifier, issues) ==
  FindFirst([k \in 1..Len(issues) |-> issues[k].identifier = identifier])

findIssue(identifier, issues) ==
  LET upper == ToUpperCase(identifier)
  IN FindFirst([k \in 1..Len(issues) |-> issues[k].identifier = upper])

\* a handler returns its result or throws, having issued some requests
Returned(result, lin, requests) ==
  [threw |-> FALSE, result |-> result, linear |-> lin, requests |-> requests]
Threw(message, lin, requests) ==
  [threw |-> TRUE, result |-> [error |-> message], linear |-> lin,
   requests |-> requests]

\* reading a property of undefined, or calling a method a value does not have
TypeErrorText == "Cannot read properties of undefined"

IssueNotFound(identifier) ==
  [error |-> "Issue " \o identifier \o " not found in active issues."]

\* the rest of handleUpdateStatus once updateIssue has answered
StatusUpdated(updated) ==
  IF ~updated.ok THEN Threw(updated.error, updated.linear, 1)
  ELSE Returned([success |-> TRUE, issue |-> updated.value.identifier,
                 title |-> updated.value.title,
                 new_status |-> updated.value.state], updated.linear, 1)

handleUpdateStatus(input, c, lin, fate) ==
  LET identifier == Prop(input, "issue_identifier")
      status == Prop(input, "status")
      issue == findIssue(identifier.val, c.issues)
      state == FindFirst([k \in 1..Len(c.states) |->
                 ToLowerCase(c.states[k].name) = ToLowerCase(status.val)])
  IN IF identifier.type # "string" THEN Threw(TypeErrorText, lin, 0)
     ELSE IF issue = 0 THEN Returned(IssueNotFound(identifier.val), lin, 0)
     ELSE IF status.type # "string" THEN Threw(TypeErrorText, lin, 0)
     ELSE IF state = 0
     THEN Returned([error |-> "State \"" \o status.val \o "\" not found. Available: "
                               \o Join([k \in 1..Len(c.states) |-> c.states[k].name],
                                       ", ")], lin, 0)
     ELSE StatusUpdated(Request(fate, 1, lin,
            updateIssue(lin, c.issues[issue].id, [stateId |-> c.states[state].id])))

\* the rest of handleUpdatePriority once updateIssue has answered
PriorityUpdated(updated) ==
  IF ~updated.ok THEN Threw(updated.error, updated.linear, 1)
  ELSE Returned([success |-> TRUE, issue |-> updated.value.identifier,
                 title |-> updated.value.title,
                 new_priority |-> PriorityLabel(updated.value.priority)],
                updated.linear, 1)

handleUpdatePriority(input, c, lin, fate) ==
  LET identifier == Prop(input, "issue_identifier")
      priority == Prop(input, "priority")
      issue == findIssue(identifier.val, c.issues)
      \* JSON.stringify leaves an undefined property out of the request
      fields == IF priority.type = "undefined" THEN << >> ELSE [priority |-> priority]
  IN IF identifier.type # "string" THEN Threw(TypeErrorText, lin, 0)
     ELSE IF issue = 0 THEN Returned(IssueNotFound(identifier.val), lin, 0)
     ELSE PriorityUpdated(Request(fate, 1, lin,
            updateIssue(lin, c.issues[issue].id, fields)))

\* the rest of handleAddComment once createComment has answered
CommentAdded(issue, comment) ==
  IF ~comment.ok THEN Threw(comment.error, comment.linear, 1)
  ELSE Returned([success |-> TRUE, issue |-> issue.identifier,
                 comment_preview |-> comment.value.body], comment.linear, 1)

handleAddComment(input, c, lin, fate) ==
  LET identifier == Prop(input, "issue_identifier")
      issue == findIssue(identifier.val, c.issues)
  IN IF identifier.type # "string" THEN Threw(TypeErrorText, lin, 0)
     ELSE IF issue = 0 THEN Returned(IssueNotFound(identifier.val), lin, 0)
     ELSE CommentAdded(c.issues[issue], Request(fate, 1, lin,
            createComment(lin, c.issues[issue].id, Prop(input, "comment"))))

\* the end of handleAddLabel once updateIssue has answered, the n + 1-th request
LabelAppended(updated, n) ==
  IF ~updated.ok THEN Threw(updated.error, updated.linear, n + 1)
  ELSE Returned([success |-> TRUE, issue |-> updated.value.identifier,
                 labels |-> LabelNames(updated.value)], updated.linear, n + 1)

\* handleAddLabel from "Check if already applied" on: the label is known or
\* was created by the n requests made so far; issue is the snapshot's issue
ApplyLabel(issue, label, lin, n, fate) ==
  LET currentLabelIds == [j \in 1..Len(issue.labels) |-> issue.labels[j].id]
  IN IF label.id \in Range(currentLabelIds)
     THEN Returned([success |-> TRUE,
                    message |-> issue.identifier \o " already has label \""
                                \o label.name \o "\""], lin, n)
     ELSE LabelAppended(Request(fate, n + 1, lin,
            updateIssue(lin, issue.id,
                        [labelIds |-> Append(currentLabelIds, label.id)])), n)

\* the rest of handleAddLabel once createLabel has answered
LabelCreated(issue, created, fate) ==
  IF ~created.ok THEN Threw(created.error, created.linear, 1)
  ELSE ApplyLabel(issue, created.value, created.linear, 1, fate)

handleAddLabel(input, c, lin, fate) ==
  LET identifier == Prop(input, "issue_identifier")
      name == Prop(input, "label_name")
      issue == findIssue(identifier.val, c.issues)
      \* the callback of find reads label_name only if there is a label
      known == IF Len(c.labels) = 0 THEN 0
               ELSE FindFirst([k \in 1..Len(c.labels) |->
                      ToLowerCase(c.labels[k].name) = ToLowerCase(name.val)])
  IN IF identifier.type # "string" THEN Threw(TypeErrorText, lin, 0)
     ELSE IF issue = 0 THEN Returned(IssueNotFound(identifier.val), lin, 0)
     ELSE IF name.type # "string" /\ Len(c.labels) > 0
     THEN Threw(TypeErrorText, lin, 0)
     ELSE IF known = 0
     THEN LabelCreated(c.issues[issue],
            Request(fate, 1, lin, createLabel(lin, c.teamId, name, fate.duplicate)),
            fate)
     ELSE ApplyLabel(c.issues[issue], c.labels[known], lin, 0, fate)

\* the request object: of the candidate properties, those whose condition holds
Only(values, wanted) == [f \in {g \in DOMAIN wanted : wanted[g]} |-> values[f]]

\* the first project whose name contains the given text, 0 if none
FindProject(c, name) ==
  FindFirst([k \in 1..Len(c.projects) |->
               Includes(ToLowerCase(c.projects[k].name), ToLowerCase(name))])

\* the request object of a subtask
SubInput(sub, parentId, projectId) ==
  Only([title |-> Prop(sub, "title"), parentId |-> parentId,
        description |-> Prop(sub, "description"),
        priority |-> Prop(sub, "priority"),
        dueDate |-> Prop(sub, "due_date"), projectId |-> projectId],
       [title |-> Prop(sub, "title").type # "undefined", parentId |-> TRUE,
        description |-> Truthy(Prop(sub, "description")),
        priority |-> Prop(sub, "priority").type # "undefined",
        dueDate |-> Truthy(Prop(sub, "due_date")),
        projectId |-> projectId # Null])

\* subtaskResults.push: the subtask's result goes before those that follow
Pushed(value, rest) ==
  IF ~rest.ok THEN rest
  ELSE [rest EXCEPT !.results =
          << [issue |-> value.identifier, title |-> value.title,
              due_date |-> value.dueDate] >> \o @]

\* the for loop over input.subtasks: one createIssue request per subtask, the
\* k-th request of the execution first; it stops at the first that fails
RECURSIVE createSubtasks(_, _, _, _, _, _, _)
RECURSIVE SubtaskCreated(_, _, _, _, _, _, _)
createSubtasks(subs, c, lin, parentId, projectId, fate, k) ==
  IF Len(subs) = 0
  THEN [ok |-> TRUE, linear |-> lin, requests |-> k - 1, results |-> << >>]
  ELSE SubtaskCreated(subs, c, parentId, projectId, fate, k,
         Request(fate, k, lin,
                 createLinearIssue(lin, SubInput(Head(subs), parentId, projectId))))

\* a loop that catches the failure of a subtask and goes on with the next
SubtaskCreatedContinues(subs, c, parentId, projectId, fate, k, created) ==
  IF ~created.ok
  THEN createSubtasks(Tail(subs), c, created.linear, parentId, projectId,
                      fate, k + 1)
  ELSE Pushed(created.value,
              createSubtasks(Tail(subs), c, created.linear, parentId, projectId,
                             fate, k + 1))

\* an iteration of the loop once createIssue has answered
SubtaskCreated(subs, c, parentId, projectId, fate, k, created) ==
  IF ~created.ok
  THEN [ok |-> FALSE, linear |-> created.linear, requests |-> k,
        results |-> << >>, error |-> created.error]
  ELSE Pushed(created.value,
              createSubtasks(Tail(subs), c, created.linear, parentId, projectId,
                             fate, k + 1))

\* the end of handleCreateIssue once the loop over the subtasks is over
SubtasksCreated(result, children) ==
  IF ~children.ok THEN Threw(children.error, children.linear, children.requests)
  ELSE Returned([success |-> TRUE, issue |-> result.issue, title |-> result.title,
                 url |-> result.url, due_date |-> result.due_date,
                 subtasks |-> children.results],
                children.linear, children.requests)

\* the rest of handleCreateIssue once createIssue has answered for the parent
ParentCreated(input, c, fate, projectId, parentIssue) ==
  LET subtasks == Prop(input, "subtasks")
      \* input.subtasks && input.subtasks.length > 0
      hasSubtasks == subtasks.type \in {"array", "string"} /\ Len(subtasks.val) > 0
      \* the elements of a string are characters: objects without properties
      subs == IF subtasks.type = "array" THEN subtasks.val
              ELSE [k \in 1..Len(subtasks.val) |-> << >>]
  IN IF ~parentIssue.ok THEN Threw(parentIssue.error, parentIssue.linear, 1)
     ELSE IF ~hasSubtasks
     THEN Returned([success |-> TRUE, issue |-> parentIssue.value.identifier,
                    title |-> parentIssue.value.title, url |-> parentIssue.value.url,
                    due_date |-> parentIssue.value.dueDate], parentIssue.linear, 1)
     ELSE SubtasksCreated(
            [issue |-> parentIssue.value.identifier, title |-> parentIssue.value.title,
             url |-> parentIssue.value.url, due_date |-> parentIssue.value.dueDate],
            createSubtasks(subs, c, parentIssue.linear, parentIssue.value.id,
                           projectId, fate, 2))

handleCreateIssue(input, c, lin, fate) ==
  LET projectName == Prop(input, "project_name")
      status == Prop(input, "status")
      project == IF Truthy(projectName) THEN FindProject(c, projectName.val) ELSE 0
      projectId == IF project = 0 THEN Null ELSE c.projects[project].id
      state == IF Truthy(status)
               THEN FindFirst([k \in 1..Len(c.states) |->
                      ToLowerCase(c.states[k].name) = ToLowerCase(status.val)])
               ELSE 0
      createInput ==
        Only([title |-> Prop(input, "title"),
              description |-> Prop(input, "description"),
              priority |-> Prop(input, "priority"),
              dueDate |-> Prop(input, "due_date"), projectId |-> projectId,
              stateId |-> IF state = 0 THEN "" ELSE c.states[state].id],
             [title |-> Prop(input, "title").type # "undefined",
              description |-> Truthy(Prop(input, "description")),
              priority |-> Prop(input, "priority").type # "undefined",
              dueDate |-> Truthy(Prop(input, "due_date")),
              projectId |-> project # 0, stateId |-> state # 0])
  IN IF Truthy(projectName) /\ projectName.type # "string" /\ Len(c.projects) > 0
     THEN Threw(TypeErrorText, lin, 0)
     ELSE IF Truthy(status) /\ status.type # "string" /\ Len(c.states) > 0
     THEN Threw(TypeErrorText, lin, 0)
     ELSE ParentCreated(input, c, fate, projectId,
            Request(fate, 1, lin, createLinearIssue(lin, createInput)))

\* the rest of handleCreateProject once createProject has answered
ProjectCreated(project) ==
  IF ~project.ok THEN Threw(project.error, project.linear, 1)
  ELSE Returned([success |-> TRUE, project |-> project.value.name,
                 id |-> project.value.id], project.linear, 1)

handleCreateProject(input, c, lin, fate) ==
  ProjectCreated(Request(fate, 1, lin,
    createLinearProject(lin, Prop(input, "name"), Prop(input, "description"))))

\* the rest of handleAssignIssue once updateIssue has answered
AssigneeUpdated(updated) ==
  IF ~updated.ok THEN Threw(updated.error, updated.linear, 1)
  ELSE Returned([success |-> TRUE, issue |-> updated.value.identifier,
                 title |-> updated.value.title,
                 assignee |-> updated.value.assignee], updated.linear, 1)

handleAssignIssue(input, c, lin, fate) ==
  LET identifier == Prop(input, "issue_identifier")
      assigneeName == Prop(input, "assignee_name")
      issue == findIssue(identifier.val, c.issues)
      nameLower == ToLowerCase(assigneeName.val)
      member == FindFirst([k \in 1..Len(c.members) |->
                  \/ Includes(ToLowerCase(c.members[k].name), nameLower)
                  \/ Includes(ToLowerCase(c.members[k].displayName), nameLower)])
  IN IF identifier.type # "string" THEN Threw(TypeErrorText, lin, 0)
     ELSE IF issue = 0 THEN Returned(IssueNotFound(identifier.val), lin, 0)
     ELSE IF assigneeName.type # "string" THEN Threw(TypeErrorText, lin, 0)
     ELSE IF member = 0
     THEN Returned([error |-> "Team member \"" \o assigneeName.val
                               \o "\" not found. Available: "
                               \o Join([k \in 1..Len(c.members) |-> c.members[k].name],
                                       ", ")], lin, 0)
     ELSE AssigneeUpdated(Request(fate, 1, lin,
            updateIssue(lin, c.issues[issue].id,
                        [assigneeId |-> c.members[member].id])))

\* the rest of handleUpdateDueDate once updateIssue has answered
DueDateUpdated(updated) ==
  IF ~updated.ok THEN Threw(updated.error, updated.linear, 1)
  ELSE Returned([success |-> TRUE, issue |-> updated.value.identifier,
                 title |-> updated.value.title,
                 due_date |-> IF updated.value.dueDate = Null THEN "cleared"
                              ELSE updated.value.dueDate], updated.linear, 1)

handleUpdateDueDate(input, c, lin, fate) ==
  LET identifier == Prop(input, "issue_identifier")
      given == Prop(input, "due_date")
      issue == findIssue(identifier.val, c.issues)
      \* input.due_date && input.due_date.trim() !== "" ? input.due_date : null
      dueDate == IF Truthy(given) /\ Trim(given.val) # "" THEN given ELSE JsNull
  IN IF identifier.type # "string" THEN Threw(TypeErrorText, lin, 0)
     ELSE IF issue = 0 THEN Returned(IssueNotFound(identifier.val), lin, 0)
     ELSE IF Truthy(given) /\ given.type # "string" THEN Threw(TypeErrorText, lin, 0)
     ELSE DueDateUpdated(Request(fate, 1, lin,
            updateIssue(lin, c.issues[issue].id, [dueDate |-> dueDate])))

\* the switch over the tool name
Dispatch(toolName, input, c, lin, fate) ==
  CASE toolName = "update_issue_status" -> handleUpdateStatus(input, c, lin, fate)
    [] toolName = "update_issue_priority" -> handleUpdatePriority(input, c, lin, fate)
    [] toolName = "add_comment" -> handleAddComment(input, c, lin, fate)
    [] toolName = "add_label" -> handleAddLabel(input, c, lin, fate)
    [] toolName = "create_issue" -> handleCreateIssue(input, c, lin, fate)
    [] toolName = "create_project" -> handleCreateProject(input, c, lin, fate)
    [] toolName = "assign_issue" -> handleAssignIssue(input, c, lin, fate)
    [] toolName = "update_due_date" -> handleUpdateDueDate(input, c, lin, fate)
    [] OTHER -> Returned([error |-> "Unknown tool: " \o toolName], lin, 0)

\* the catch of executeTool: what a throw of the handler is turned into
Settled(toolName, r) ==
  IF r.threw
  THEN Returned([error |-> "Tool \"" \o toolName \o "\" failed: " \o r.result.error],
                r.linear, r.requests)
  ELSE r

\* the switch without the try around it: a handler's throw leaves executeTool
executeToolNoCatch(toolName, input, c, lin, fate) ==
  Dispatch(toolName, input, c, lin, fate)

\* executeTool: the handler's result, or the error its throw is turned into
executeTool(toolName, input, c, lin, fate) ==
  Settled(toolName, Dispatch(toolName, input, c, lin, fate))

\* what an execution does under each fate of its requests
Outcomes(toolName, input, c, lin) ==
  [fate \in Fates |-> executeTool(toolName, input, c, lin, fate)]

\* a fate other than NoFault is taken when it changes what the call does
Takes(fate, out) ==
  /\ fate # NoFault => out[fate] # out[NoFault]
  /\ fate.duplicate = "created" => out[fate] # out[[fate EXCEPT !.duplicate = "rejected"]]

\* ---- the reasoning model's responses (inputs of the model)
TextBlock(t) == [type |-> "text", text |-> t]
ToolUseBlock(id, name, input) ==
  [type |-> "tool_use", id |-> id, name |-> name, input |-> input]
ToolId(round, k) == "toolu_" \o ToString(round) \o "_" \o ToString(k)

\* the response that requests operations in the given round (rounds from 0);
\* the round numbers the correlation ids.  Script "status" asks for one status
\* update per round; script "mixed" alternates it with a pair of requests that
\* cannot be resolved; script "lookups" starts with three requests whose
\* issue, state or member the snapshot does not hold, and goes on with two
\* labels for one issue
Scripts == {"status", "mixed", "lookups"}

StatusRequest(round) ==
  [stop_reason |-> "tool_use", hasContent |-> TRUE,
   content |-> << TextBlock("On it."),
                  ToolUseBlock(ToolId(round, 1), "update_issue_status",
                               [issue_identifier |-> Str("yak-1"), status |-> Str("done")]) >>]

UnresolvedRequests(round) ==
  [stop_reason |-> "tool_use", hasContent |-> TRUE,
   content |-> << ToolUseBlock(ToolId(round, 1), "update_issue_status",
                               [issue_identifier |-> Str("yak-2"), status |-> Str("done")]),
                  ToolUseBlock(ToolId(round, 2), "frobnicate", [x |-> Str("1")]) >>]

FailedLookups(round) ==
  [stop_reason |-> "tool_use", hasContent |-> TRUE,
   content |-> << ToolUseBlock(ToolId(round, 1), "assign_issue",
                               [issue_identifier |-> Str("YAK-2"),
                                assignee_name |-> Str("zach")]),
                  ToolUseBlock(ToolId(round, 2), "update_issue_status",
                               [issue_identifier |-> Str("yak-1"), status |-> Str("nope")]),
                  ToolUseBlock(ToolId(round, 3), "assign_issue",
                               [issue_identifier |-> Str("yak-1"),
                                assignee_name |-> Str("bob")]) >>]

TwoLabels(round) ==
  [stop_reason |-> "tool_use", hasContent |-> TRUE,
   content |-> << ToolUseBlock(ToolId(round, 1), "add_label",
                               [issue_identifier |-> Str("yak-1"),
                                label_name |-> Str("later")]),
                  TextBlock("and"),
                  ToolUseBlock(ToolId(round, 2), "add_label",
                               [issue_identifier |-> Str("yak-1"),
                                label_name |-> Str("blocked")]) >>]

ToolUseResponses(s, round) ==
  IF s = "mixed" /\ round % 2 = 0
  THEN {UnresolvedRequests(round)}
  ELSE IF s = "lookups" /\ round = 0
  THEN {FailedLookups(round)}
  ELSE IF s = "lookups" /\ round = 1
  THEN {TwoLabels(round)}
  ELSE {StatusRequest(round)}

\* responses that end the turn: text segments, empty segments, no segment,
\* no content at all
FinalResponses ==
  { [stop_reason |-> "end_turn", hasContent |-> TRUE,
     content |-> << TextBlock("Marked done."), TextBlock("Anything else?") >>],
    [stop_reason |-> "end_turn", hasContent |-> TRUE, content |-> << TextBlock("") >>],
    [stop_reason |-> "end_turn", hasContent |-> TRUE,
     content |-> << TextBlock(""), TextBlock("") >>],
    [stop_reason |-> "end_turn", hasContent |-> TRUE, content |-> << >>],
    [stop_reason |-> "refusal", hasContent |-> FALSE, content |-> << >>],
    \* cut off at max_tokens after a tool_use block
    [stop_reason |-> "max_tokens", hasContent |-> TRUE,
     content |-> << TextBlock("Let me"),
                    ToolUseBlock("toolu_cut", "update_issue_status",
                                 [issue_identifier |-> Str("yak-1"), status |-> Str("todo")]) >>] }

AgentResponses(s, round) == ToolUseResponses(s, round) \cup FinalResponses

NoResponse == [stop_reason |-> "", hasContent |-> FALSE, content |-> << >>]
NoUpdate == [text |-> "", chatId |-> ""]
NoContext ==
  [issues |-> << >>, states |-> << >>, labels |-> << >>, teamId |-> "",
   projects |-> << >>, members |-> << >>]

\* ---- agent.js: runAgent
\* the ceiling compared with <= : one round too many
LoopContinuesOffByOne(resp, iters) ==
  resp.stop_reason = "tool_use" /\ iters <= MAX_ITERATIONS

\* the loop going on whenever the response holds a tool_use block
LoopContinuesOnAnyRequest(resp, iters) ==
  /\ \E i \in 1..Len(resp.content) : resp.content[i].type = "tool_use"
  /\ iters < MAX_ITERATIONS

\* a loop without the ceiling
LoopContinuesNoCeiling(resp, iters) == resp.stop_reason = "tool_use"

\* the while condition of the tool-use loop
LoopContinues(resp, iters) ==
  resp.stop_reason = "tool_use" /\ iters < MAX_ITERATIONS

\* the text segments of a response, in order
TextSegments(resp) ==
  LET blocks == SelectSeq(resp.content, LAMBDA b : b.type = "text")
  IN IF resp.hasContent THEN [k \in 1..Len(blocks) |-> blocks[k].text] ELSE << >>

\* the fallback taken only for a missing content (?? in place of ||)
ExtractTextNullish(resp) ==
  IF resp.hasContent THEN Join(TextSegments(resp), "\n") ELSE FallbackText

\* response.content?.filter(text).map(b => b.text).join("\n") || fallback
ExtractText(resp) ==
  LET blocks == SelectSeq(resp.content, LAMBDA b : b.type = "text")
      texts == [k \in 1..Len(blocks) |-> blocks[k].text]
      joined == IF resp.hasContent THEN Join(texts, "\n") ELSE ""
  IN IF joined = "" THEN FallbackText ELSE joined

\* a read that finds nothing, whatever is stored
getHistoryEmpty(kv, readOk) == << >>

\* a read that throws answered from what is stored
getHistoryIgnoresFailure(kv, readOk) ==
  IF kv.present THEN kv.value ELSE << >>

\* getHistory: stored || [], and [] when the read throws
getHistory(kv, readOk) ==
  IF readOk /\ kv.present THEN kv.value ELSE << >>

\* the assistant entry appended before the user entry
saveHistorySwapped(existing, userMsg, assistantMsg) ==
  SliceLast(existing \o << [role |-> "assistant", content |-> assistantMsg],
                           [role |-> "user", content |-> userMsg] >>,
            MAX_HISTORY_PAIRS * 2)

\* the history saved without trimming
saveHistoryNoTrim(existing, userMsg, assistantMsg) ==
  existing \o << [role |-> "user", content |-> userMsg],
                 [role |-> "assistant", content |-> assistantMsg] >>

\* the head kept in place of the tail: slice(0, n)
saveHistoryKeepHead(existing, userMsg, assistantMsg) ==
  LET updated == existing \o << [role |-> "user", content |-> userMsg],
                                [role |-> "assistant", content |-> assistantMsg] >>
  IN SubSeq(updated, 1, IF Len(updated) <= MAX_HISTORY_PAIRS * 2
                        THEN Len(updated) ELSE MAX_HISTORY_PAIRS * 2)

\* the exchange of the turn stored alone
saveHistoryOnlyPair(existing, userMsg, assistantMsg) ==
  << [role |-> "user", content |-> userMsg],
     [role |-> "assistant", content |-> assistantMsg] >>

\* a window of an odd number of entries: slice(-(n * 2 - 1))
saveHistoryOddWindow(existing, userMsg, assistantMsg) ==
  LET updated == existing \o << [role |-> "user", content |-> userMsg],
                                [role |-> "assistant", content |-> assistantMsg] >>
  IN SliceLast(updated, MAX_HISTORY_PAIRS * 2 - 1)

\* saveHistory: the value put under the history key
saveHistory(existing, userMsg, assistantMsg) ==
  LET updated == existing \o << [role |-> "user", content |-> userMsg],
                                [role |-> "assistant", content |-> assistantMsg] >>
  IN SliceLast(updated, MAX_HISTORY_PAIRS * 2)

\* a loop that resumes one block too far
NextToolUseSkipping(content, k) ==
  IF \E i \in (k + 1)..Len(content) : content[i].type = "tool_use"
  THEN CHOOSE i \in (k + 1)..Len(content) :
         /\ content[i].type = "tool_use"
         /\ \A j \in (k + 1)..(i - 1) : content[j].type # "tool_use"
  ELSE 0

\* index of the next tool_use block at or after position k, 0 if none
NextToolUse(content, k) ==
  IF \E i \in k..Len(content) : content[i].type = "tool_use"
  THEN CHOOSE i \in k..Len(content) :
         /\ content[i].type = "tool_use"
         /\ \A j \in k..(i - 1) : content[j].type # "tool_use"
  ELSE 0

\* what the briefing runs keep track of; no chat action touches it
briefingVars == <<today, bKind, bSent, bModelCalls, bRead, genText, hits,
                  lastHash, sameRuns>>

\* arguments and results of functions applied on their own; no invocation of
\* the Worker touches them
functionVars == <<fpIn, fpOut, execLog>>

\* the fetch handler's bindings and its latest exchange
webhookVars == <<env, http>>

\* the state of the original script, scripts/daily-briefing.js
scriptVars == <<fileCache, scriptRun>>

\* ---- index.js: the webhook and processMessage
\* processMessage up to Promise.all, for an update the fetch handler passed
\* on: a text message starts a turn
ReceiveText(p, texts, scripts, maxTurns) ==
  /\ pc[p] = "idle"
  /\ turnNo < maxTurns
  /\ \E s \in scripts : script' = [script EXCEPT ![p] = s]
  /\ \E text \in texts :
       /\ ~StartsWithSlash(text)
       /\ update' = [update EXCEPT ![p] = [text |-> text, chatId |-> "42"]]
  /\ turnNo' = turnNo + 1
  /\ pc' = [pc EXCEPT ![p] = "fetch"]
  /\ ctx' = [ctx EXCEPT ![p] = NoContext]
  /\ history' = [history EXCEPT ![p] = << >>]
  /\ messages' = [messages EXCEPT ![p] = << >>]
  /\ response' = [response EXCEPT ![p] = NoResponse]
  /\ iterations' = [iterations EXCEPT ![p] = 0]
  /\ blockIdx' = [blockIdx EXCEPT ![p] = 0]
  /\ toolResults' = [toolResults EXCEPT ![p] = << >>]
  /\ assistantText' = [assistantText EXCEPT ![p] = ""]
  /\ outbox' = [outbox EXCEPT ![p] = << >>]
  /\ outcome' = [outcome EXCEPT ![p] = "running"]
  /\ modelCalls' = [modelCalls EXCEPT ![p] = 0]
  /\ kvWrites' = [kvWrites EXCEPT ![p] = 0]
  /\ allToolUse' = [allToolUse EXCEPT ![p] = TRUE]
  /\ fetched' = [fetched EXCEPT ![p] = << >>]
  /\ UNCHANGED briefingVars
  /\ UNCHANGED functionVars
  /\ UNCHANGED webhookVars
  /\ UNCHANGED scriptVars
  /\ UNCHANGED workspace
  /\ UNCHANGED <<kvHistory, kvCache, tracker, faults, saved, streak>>

\* a catch that logs the error and sends nothing
CaughtSilently(p, message) ==
  /\ outbox' = outbox
  /\ outcome' = [outcome EXCEPT ![p] = "error"]
  /\ pc' = [pc EXCEPT ![p] = "idle"]
  /\ ctx' = [ctx EXCEPT ![p] = NoContext]
  /\ history' = [history EXCEPT ![p] = << >>]
  /\ messages' = [messages EXCEPT ![p] = << >>]
  /\ response' = [response EXCEPT ![p] = NoResponse]
  /\ toolResults' = [toolResults EXCEPT ![p] = << >>]
  /\ blockIdx' = [blockIdx EXCEPT ![p] = 0]

\* the catch of processMessage: the error is reported and the turn ends
Caught(p, message) ==
  /\ outbox' = [outbox EXCEPT ![p] = Append(@,
        "Something broke: " \o message \o "\n\nTry again or check the Worker logs.")]
  /\ outcome' = [outcome EXCEPT ![p] = "error"]
  /\ pc' = [pc EXCEPT ![p] = "idle"]
  /\ ctx' = [ctx EXCEPT ![p] = NoContext]
  /\ history' = [history EXCEPT ![p] = << >>]
  /\ messages' = [messages EXCEPT ![p] = << >>]
  /\ response' = [response EXCEPT ![p] = NoResponse]
  /\ toolResults' = [toolResults EXCEPT ![p] = << >>]
  /\ blockIdx' = [blockIdx EXCEPT ![p] = 0]

\* the six fetches of processMessage, as ctx holds them
Snapshot(trk, ws) ==
  [issues |-> trk, states |-> WorkflowStates, labels |-> ws.labels,
   teamId |-> TeamId, projects |-> ws.projects, members |-> Members]

\* the six requests that Promise.all joins
Parts == {"issues", "states", "labels", "teamId", "projects", "members"}

\* one of the six fetches resolves with what Linear holds at that moment; the
\* six are in flight together and resolve in any order
FetchCompletes(p) ==
  /\ pc[p] = "fetch"
  /\ \E part \in Parts \ DOMAIN fetched[p] :
       fetched' = [fetched EXCEPT ![p] =
                     (part :> Snapshot(tracker, workspace)[part]) @@ @]
  /\ UNCHANGED briefingVars
  /\ UNCHANGED functionVars
  /\ UNCHANGED webhookVars
  /\ UNCHANGED scriptVars
  /\ UNCHANGED workspace
  /\ UNCHANGED <<kvHistory, kvCache, tracker, turnNo, faults, pc, update, ctx,
                 history, messages, response, iterations, blockIdx, toolResults,
                 assistantText, outbox, outcome, modelCalls, kvWrites,
                 allToolUse, saved, streak, script>>

\* Promise.all resolves when each of the six has resolved
AllResolved(got) == DOMAIN got = Parts

\* Promise.all of the six fetches resolves: the context is built
FetchContext(p) ==
  /\ pc[p] = "fetch"
  /\ AllResolved(fetched[p])
  /\ ctx' = [ctx EXCEPT ![p] = fetched[p]]
  /\ pc' = [pc EXCEPT ![p] = "load"]
  /\ UNCHANGED briefingVars
  /\ UNCHANGED functionVars
  /\ UNCHANGED webhookVars
  /\ UNCHANGED scriptVars
  /\ UNCHANGED workspace
  /\ UNCHANGED <<kvHistory, kvCache, tracker, turnNo, faults, update, history,
                 messages, response, iterations, blockIdx, toolResults,
                 assistantText, outbox, outcome, modelCalls, kvWrites,
                 allToolUse, saved, streak, script, fetched>>

\* a fetch whose failure is swallowed: it resolves with an empty part
FetchFailsSwallowed(p) ==
  /\ pc[p] = "fetch"
  /\ faults < MaxFaults
  /\ faults' = faults + 1
  /\ \E part \in Parts \ DOMAIN fetched[p] :
       fetched' = [fetched EXCEPT ![p] = (part :> NoContext[part]) @@ @]
  /\ UNCHANGED briefingVars
  /\ UNCHANGED functionVars
  /\ UNCHANGED webhookVars
  /\ UNCHANGED scriptVars
  /\ UNCHANGED workspace
  /\ UNCHANGED <<kvHistory, kvCache, tracker, turnNo, pc, update, ctx, history,
                 messages, response, iterations, blockIdx, toolResults,
                 assistantText, outbox, outcome, modelCalls, kvWrites,
                 allToolUse, saved, streak, script>>

\* one of the fetches still in flight rejects: Promise.all rejects at once,
\* whatever has resolved, and the catch of processMessage reports it
FetchFails(p) ==
  /\ pc[p] = "fetch"
  /\ Parts \ DOMAIN fetched[p] # {}
  /\ faults < MaxFaults
  /\ faults' = faults + 1
  /\ Caught(p, "Linear API HTTP 500: Internal Server Error")
  /\ UNCHANGED briefingVars
  /\ UNCHANGED functionVars
  /\ UNCHANGED webhookVars
  /\ UNCHANGED scriptVars
  /\ UNCHANGED workspace
  /\ UNCHANGED <<kvHistory, kvCache, tracker, turnNo, update, iterations,
                 assistantText, modelCalls, kvWrites, allToolUse, saved,
                 streak, script, fetched>>

\* runAgent: getHistory, the message array and the first callClaude request
LoadHistory(p) ==
  /\ pc[p] = "load"
  /\ \E readOk \in BOOLEAN :
       /\ ~readOk => faults < MaxFaults
       /\ faults' = IF readOk THEN faults ELSE faults + 1
       /\ history' = [history EXCEPT ![p] = getHistory(kvHistory, readOk)]
  /\ messages' = [messages EXCEPT ![p] =
        history'[p] \o << [role |-> "user", content |-> update[p].text] >>]
  /\ modelCalls' = [modelCalls EXCEPT ![p] = @ + 1]
  /\ pc' = [pc EXCEPT ![p] = "call"]
  /\ UNCHANGED briefingVars
  /\ UNCHANGED functionVars
  /\ UNCHANGED webhookVars
  /\ UNCHANGED scriptVars
  /\ UNCHANGED fetched
  /\ UNCHANGED workspace
  /\ UNCHANGED <<kvHistory, kvCache, tracker, turnNo, update, ctx, response,
                 iterations, blockIdx, toolResults, assistantText, outbox,
                 outcome, kvWrites, allToolUse, saved,
                 streak, script>>

\* callClaude returns a response; the while condition is evaluated, and either
\* a round of tool execution starts or the final text is extracted
ModelResponds(p, responses) ==
  /\ pc[p] = "call"
  /\ \E r \in responses :
       /\ response' = [response EXCEPT ![p] = r]
       /\ allToolUse' = [allToolUse EXCEPT ![p] = @ /\ r.stop_reason = "tool_use"]
       /\ IF LoopContinues(r, iterations[p])
          THEN /\ iterations' = [iterations EXCEPT ![p] = @ + 1]
               /\ toolResults' = [toolResults EXCEPT ![p] = << >>]
               /\ blockIdx' = [blockIdx EXCEPT ![p] = 1]
               /\ pc' = [pc EXCEPT ![p] = "tools"]
               /\ UNCHANGED assistantText
          ELSE /\ assistantText' = [assistantText EXCEPT ![p] = ExtractText(r)]
               /\ pc' = [pc EXCEPT ![p] = "save"]
               /\ UNCHANGED <<iterations, toolResults, blockIdx>>
  /\ UNCHANGED briefingVars
  /\ UNCHANGED functionVars
  /\ UNCHANGED webhookVars
  /\ UNCHANGED scriptVars
  /\ UNCHANGED fetched
  /\ UNCHANGED workspace
  /\ UNCHANGED <<kvHistory, kvCache, tracker, turnNo, faults, update, ctx,
                 history, messages, outbox, outcome, modelCalls, kvWrites,
                 saved, streak, script>>

\* callClaude throws (HTTP status not ok)
ModelFails(p) ==
  /\ pc[p] = "call"
  /\ faults < MaxFaults
  /\ faults' = faults + 1
  /\ Caught(p, "Anthropic API 529: overloaded")
  /\ UNCHANGED briefingVars
  /\ UNCHANGED functionVars
  /\ UNCHANGED webhookVars
  /\ UNCHANGED scriptVars
  /\ UNCHANGED fetched
  /\ UNCHANGED workspace
  /\ UNCHANGED <<kvHistory, kvCache, tracker, turnNo, update, iterations,
                 assistantText, modelCalls, kvWrites, allToolUse, saved,
                 streak, script>>

\* every result tied to the first request's id
ToolResultFirstId(block, result) ==
  [type |-> "tool_result", tool_use_id |-> "toolu_0_1", content |-> result]

\* the tool result pushed for a tool_use block
ToolResult(block, result) ==
  [type |-> "tool_result", tool_use_id |-> block.id, content |-> result]

\* the for loop over response.content: the next tool_use block is executed;
\* fate is the fate of the Linear requests the handler issues, if it issues any
ExecuteNextTool(p) ==
  /\ pc[p] = "tools"
  /\ \E k \in {NextToolUse(response[p].content, blockIdx[p])} \ {0} :
       /\ \E out \in {Outcomes(response[p].content[k].name,
                                response[p].content[k].input, ctx[p],
                                Linear(tracker, workspace))} :
            \E fate \in Fates :
              /\ Takes(fate, out)
              /\ fate # NoFault => faults < MaxFaults
              /\ faults' = IF fate = NoFault THEN faults ELSE faults + 1
              /\ tracker' = out[fate].linear.issues
              /\ workspace' = [labels |-> out[fate].linear.labels,
                               projects |-> out[fate].linear.projects,
                               comments |-> out[fate].linear.comments]
              /\ toolResults' = [toolResults EXCEPT ![p] = Append(@,
                    ToolResult(response[p].content[k], out[fate].result))]
       /\ blockIdx' = [blockIdx EXCEPT ![p] = k + 1]
  /\ UNCHANGED briefingVars
  /\ UNCHANGED functionVars
  /\ UNCHANGED webhookVars
  /\ UNCHANGED scriptVars
  /\ UNCHANGED fetched
  /\ UNCHANGED <<kvHistory, kvCache, turnNo, pc, update, ctx, history, messages,
                 response, iterations, assistantText, outbox, outcome,
                 modelCalls, kvWrites, allToolUse, saved,
                 streak, script>>

\* end of the for loop: the results are fed back and callClaude is requested
FeedResults(p) ==
  /\ pc[p] = "tools"
  /\ NextToolUse(response[p].content, blockIdx[p]) = 0
  /\ messages' = [messages EXCEPT ![p] = @ \o
        << [role |-> "assistant", content |-> response[p].content],
           [role |-> "user", content |-> toolResults[p]] >>]
  /\ modelCalls' = [modelCalls EXCEPT ![p] = @ + 1]
  /\ pc' = [pc EXCEPT ![p] = "call"]
  /\ UNCHANGED briefingVars
  /\ UNCHANGED functionVars
  /\ UNCHANGED webhookVars
  /\ UNCHANGED scriptVars
  /\ UNCHANGED fetched
  /\ UNCHANGED workspace
  /\ UNCHANGED <<kvHistory, kvCache, tracker, turnNo, faults, update, ctx,
                 history, response, iterations, blockIdx, toolResults,
                 assistantText, outbox, outcome, kvWrites, allToolUse,
                 saved, streak, script>>

\* saveHistory: one put of the trimmed history (taken to succeed); runAgent
\* then returns its text and its locals are gone
SaveHistory(p) ==
  /\ pc[p] = "save"
  /\ kvHistory' = [present |-> TRUE,
                   value |-> saveHistory(history[p], update[p].text, assistantText[p])]
  /\ kvWrites' = [kvWrites EXCEPT ![p] = @ + 1]
  /\ saved' = saved + 1
  /\ streak' = IF history[p] = << >> THEN 1 ELSE streak + 1
  /\ history' = [history EXCEPT ![p] = << >>]
  /\ messages' = [messages EXCEPT ![p] = << >>]
  /\ response' = [response EXCEPT ![p] = NoResponse]
  /\ toolResults' = [toolResults EXCEPT ![p] = << >>]
  /\ blockIdx' = [blockIdx EXCEPT ![p] = 0]
  /\ pc' = [pc EXCEPT ![p] = "send"]
  /\ UNCHANGED briefingVars
  /\ UNCHANGED functionVars
  /\ UNCHANGED webhookVars
  /\ UNCHANGED scriptVars
  /\ UNCHANGED fetched
  /\ UNCHANGED workspace
  /\ UNCHANGED <<kvCache, tracker, turnNo, faults, update, ctx, iterations,
                 assistantText, outbox, outcome, modelCalls, script, allToolUse>>

\* processMessage: the agent's text is sent to the chat
SendReply(p) ==
  /\ pc[p] = "send"
  /\ outbox' = [outbox EXCEPT ![p] = Append(@, assistantText[p])]
  /\ outcome' = [outcome EXCEPT ![p] = "replied"]
  /\ ctx' = [ctx EXCEPT ![p] = NoContext]
  /\ pc' = [pc EXCEPT ![p] = "idle"]
  /\ UNCHANGED briefingVars
  /\ UNCHANGED functionVars
  /\ UNCHANGED webhookVars
  /\ UNCHANGED scriptVars
  /\ UNCHANGED fetched
  /\ UNCHANGED workspace
  /\ UNCHANGED <<kvHistory, kvCache, tracker, turnNo, faults, update, history,
                 messages, response, iterations, blockIdx, toolResults,
                 assistantText, modelCalls, kvWrites, script, allToolUse, saved,
                 streak>>

\* handleCommand: the command word selects the reply; /clear deletes the history
CommandWord(text) == ToLowerCase(text)

CommandReply(cmd) ==
  CASE cmd = "/start" -> "YakDev Agent is live."
    [] cmd = "/clear" -> ClearedText
    [] cmd = "/help" -> "COMMANDS:"
    [] OTHER -> "Unknown command: " \o cmd

HandleCommand(p, texts, maxTurns) ==
  /\ pc[p] = "idle"
  /\ turnNo < maxTurns
  /\ turnNo' = turnNo + 1
  /\ \E text \in texts, deleteOk \in BOOLEAN :
       LET cmd == CommandWord(text)
       IN /\ StartsWithSlash(text)
          /\ cmd # "/briefing"
          /\ ~deleteOk => (cmd = "/clear" /\ faults < MaxFaults)
          /\ faults' = IF deleteOk THEN faults ELSE faults + 1
          /\ update' = [update EXCEPT ![p] = [text |-> text, chatId |-> "42"]]
          /\ IF deleteOk
             THEN /\ outbox' = [outbox EXCEPT ![p] = << CommandReply(cmd) >>]
                  /\ outcome' = [outcome EXCEPT ![p] = "command"]
                  /\ IF cmd = "/clear"
                     THEN /\ kvHistory' = [present |-> FALSE, value |-> << >>]
                          /\ streak' = 0
                     ELSE UNCHANGED <<kvHistory, streak>>
             ELSE /\ outbox' = [outbox EXCEPT ![p] = <<
                        "Something broke: KV DELETE failed\n\nTry again or check the Worker logs." >>]
                  /\ outcome' = [outcome EXCEPT ![p] = "error"]
                  /\ UNCHANGED <<kvHistory, streak>>
  /\ kvWrites' = [kvWrites EXCEPT ![p] = 0]
  /\ modelCalls' = [modelCalls EXCEPT ![p] = 0]
  /\ UNCHANGED briefingVars
  /\ UNCHANGED functionVars
  /\ UNCHANGED webhookVars
  /\ UNCHANGED scriptVars
  /\ UNCHANGED fetched
  /\ UNCHANGED workspace
  /\ UNCHANGED <<kvCache, tracker, pc, ctx, history, messages, response,
                 iterations, blockIdx, toolResults, assistantText, allToolUse,
                 saved, script>>

\* ---- briefing.js: the daily briefing and its cache
\* a.id.localeCompare(b.id) on the identifiers of the model
IdRank(id) ==
  CASE id = "YAK-1" -> 1 [] id = "YAK-2" -> 2 [] id = "YAK-3" -> 3 [] OTHER -> 4

\* the default sort order (UTF-16 code units) on the label names of the model
LabelRank(name) ==
  CASE name = "Bug" -> 1 [] name = "bug" -> 2 [] name = "urgent" -> 3 [] OTHER -> 4

\* Array.prototype.sort, which is stable: the elements in the order of their
\* ranks, equal ranks in their order in seq
SortByRank(seq, rank) ==
  LET n == Len(seq)
      pos(i) == 1 + Cardinality({j \in 1..n :
                       \/ rank[j] < rank[i]
                       \/ (rank[j] = rank[i] /\ j < i)})
  IN [k \in 1..n |-> seq[CHOOSE i \in 1..n : pos(i) = k]]

\* the label names left in the order the API returned them
SortLabelsNoSort(labels) == labels

\* (labels || []).sort()
SortLabels(labels) ==
  SortByRank(labels, [k \in 1..Len(labels) |-> LabelRank(labels[k])])

\* the due date left out of the normalized issue
hashIssuesNoDueDate(issues) ==
  LET normalized == [k \in 1..Len(issues) |->
        [id |-> issues[k].identifier, status |-> issues[k].state,
         priority |-> issues[k].priority, assignee |-> issues[k].assignee,
         project |-> issues[k].project,
         labels |-> SortLabels(LabelNames(issues[k]))]]
  IN SortByRank(normalized,
                [k \in 1..Len(normalized) |-> IdRank(normalized[k].id)])

\* hashIssues: the tracked fields of every issue, labels sorted, issues sorted
\* by identifier.  The SHA-256 digest of the serialization is taken as
\* injective: the fingerprint is the normalized list itself
hashIssues(issues) ==
  LET normalized == [k \in 1..Len(issues) |->
        [id |-> issues[k].identifier, status |-> issues[k].state,
         priority |-> issues[k].priority, assignee |-> issues[k].assignee,
         project |-> issues[k].project,
         labels |-> SortLabels(LabelNames(issues[k])),
         dueDate |-> issues[k].dueDate]]
  IN SortByRank(normalized,
                [k \in 1..Len(normalized) |-> IdRank(normalized[k].id)])

\* the guard for an empty list of issues left out
IsEmptySnapshotNever(issues) == FALSE

\* issues.length === 0
IsEmptySnapshot(issues) == Len(issues) = 0

\* any cached record taken as current, whatever its hash
CacheHitIgnoresHash(cache, currentHash) == cache.present

\* cache && cache.hash === currentHash
CacheHit(cache, currentHash) ==
  cache.present /\ cache.value.hash = currentHash

\* the threshold compared with > : the wake-up call one day late
IsStaleStrict(unchangedDays) == unchangedDays > STALE_DAYS_THRESHOLD

\* unchangedDays >= STALE_DAYS_THRESHOLD
IsStale(unchangedDays) == unchangedDays >= STALE_DAYS_THRESHOLD

\* the text sent by a run that found the tasks unchanged
HitText(cache) ==
  IF IsStale(cache.value.unchangedDays + 1) THEN EscalationText
  ELSE cache.value.briefing

\* the count of unchanged days written back as it was read
HitRecordNoIncrement(cache, currentHash, day) ==
  [hash |-> currentHash,
   briefing |-> cache.value.briefing,
   unchangedDays |-> cache.value.unchangedDays,
   lastRun |-> day]

\* the text that was sent cached in place of the real briefing
HitRecordStoresSent(cache, currentHash, day) ==
  [hash |-> currentHash,
   briefing |-> HitText(cache),
   unchangedDays |-> cache.value.unchangedDays + 1,
   lastRun |-> day]

\* the count of unchanged days started again once the escalation was sent
HitRecordRestarts(cache, currentHash, day) ==
  [hash |-> currentHash,
   briefing |-> cache.value.briefing,
   unchangedDays |-> IF IsStale(cache.value.unchangedDays + 1) THEN 0
                     ELSE cache.value.unchangedDays + 1,
   lastRun |-> day]

\* the record put by a run that found the tasks unchanged
HitRecord(cache, currentHash, day) ==
  [hash |-> currentHash,
   briefing |-> cache.value.briefing,
   unchangedDays |-> cache.value.unchangedDays + 1,
   lastRun |-> day]

\* a rejected generation leaving a record of the new fingerprint without a text
AfterRejectionHashStored(stored, currentHash, day) ==
  [present |-> TRUE,
   value |-> [hash |-> currentHash, briefing |-> "", unchangedDays |-> 0,
              lastRun |-> day]]

\* generateBriefing throws before the put is reached: the store as it was
AfterRejection(stored, currentHash, day) == stored

\* the record put by a run that generated a fresh briefing
MissRecord(currentHash, briefing, day) ==
  [hash |-> currentHash, briefing |-> briefing, unchangedDays |-> 0,
   lastRun |-> day]

\* the issues Linear may hold on the morning of a run
Snapshots ==
  { << >>,
    << Issue1 >>,
    << Issue1, Issue3 >>,
    << Issue3, [Issue1 EXCEPT !.title = "Auth flow v2", !.labels = << LabelBug, LabelUrgent >>] >>,
    << [Issue1 EXCEPT !.state = "Done"], Issue3 >> }

\* the texts generateBriefing may return
SummaryTexts == {"TOP PRIORITY - YAK-1", "LOW PRIORITY - all quiet"}

\* the issues change in Linear between two runs
TrackerEdited ==
  /\ today < MaxRuns
  /\ \E snapshot \in Snapshots \ {tracker} : tracker' = snapshot
  /\ UNCHANGED <<kvHistory, kvCache, turnNo, faults, pc, update, ctx, history,
                 messages, response, iterations, blockIdx, toolResults,
                 assistantText, outbox, outcome, modelCalls, kvWrites, script,
                 allToolUse, saved, streak>>
  /\ UNCHANGED briefingVars
  /\ UNCHANGED functionVars
  /\ UNCHANGED webhookVars
  /\ UNCHANGED scriptVars
  /\ UNCHANGED fetched
  /\ UNCHANGED workspace

\* the run's fingerprint joins or restarts the row of equal fingerprints
RowOf(currentHash) ==
  /\ lastHash' = [valid |-> TRUE, hash |-> currentHash]
  /\ sameRuns' = IF lastHash.valid /\ lastHash.hash = currentHash
                 THEN sameRuns + 1 ELSE 1

RowBroken ==
  /\ lastHash' = [valid |-> FALSE]
  /\ sameRuns' = 0

\* scheduled: the cron trigger runs handleDailyBriefing on a new day.
\* fetchOk, readOk and modelOk are the fates of the Linear fetch, the KV read
\* and the Anthropic call, for the calls the run gets to; the KV put and the
\* Telegram send are taken to succeed
ScheduledBriefing ==
  /\ today < MaxRuns
  /\ today' = today + 1
  /\ \E fetchOk \in BOOLEAN, readOk \in BOOLEAN, modelOk \in BOOLEAN,
        text \in SummaryTexts :
       LET issues == tracker
           currentHash == hashIssues(issues)
           cache == IF readOk THEN kvCache ELSE [present |-> FALSE]
           reached == IF ~fetchOk THEN "fetch"
                      ELSE IF IsEmptySnapshot(issues) THEN "fetch"
                      ELSE IF CacheHit(cache, currentHash) THEN "read"
                      ELSE "model"
           failed == (IF fetchOk THEN 0 ELSE 1) + (IF readOk THEN 0 ELSE 1)
                     + (IF modelOk THEN 0 ELSE 1)
       IN /\ faults + failed <= MaxFaults
          /\ faults' = faults + failed
          \* a call the run does not get to has no fate
          /\ reached = "fetch" => (readOk /\ modelOk)
          /\ reached = "read" => modelOk
          /\ (reached # "model" \/ ~modelOk) => text = CHOOSE t \in SummaryTexts : TRUE
          /\ IF ~fetchOk
             THEN /\ bKind' = "fetch_failed"
                  /\ bSent' = << "Briefing failed - couldn't reach Linear: Linear API HTTP 500" >>
                  /\ bModelCalls' = 0
                  /\ RowBroken
                  /\ UNCHANGED <<kvCache, bRead, genText, hits>>
             ELSE IF IsEmptySnapshot(issues)
             THEN /\ bKind' = "no_issues"
                  /\ bSent' = << NoIssuesText >>
                  /\ bModelCalls' = 0
                  /\ RowBroken
                  /\ UNCHANGED <<kvCache, bRead, genText, hits>>
             ELSE IF CacheHit(cache, currentHash)
             THEN /\ bKind' = "hit"
                  /\ bRead' = cache
                  /\ kvCache' = [present |-> TRUE,
                                 value |-> HitRecord(cache, currentHash, today')]
                  /\ bSent' = << HitText(cache) >>
                  /\ bModelCalls' = 0
                  /\ hits' = hits + 1
                  /\ RowOf(currentHash)
                  /\ UNCHANGED genText
             ELSE IF ~modelOk
             THEN \* generateBriefing throws out of handleDailyBriefing
                  /\ bKind' = "rejected"
                  /\ bRead' = cache
                  /\ kvCache' = AfterRejection(kvCache, currentHash, today')
                  /\ bSent' = << >>
                  /\ bModelCalls' = 1
                  /\ RowBroken
                  /\ UNCHANGED <<genText, hits>>
             ELSE /\ bKind' = "miss"
                  /\ bRead' = cache
                  /\ kvCache' = [present |-> TRUE,
                                 value |-> MissRecord(currentHash, text, today')]
                  /\ bSent' = << text >>
                  /\ bModelCalls' = 1
                  /\ genText' = text
                  /\ hits' = 0
                  /\ RowOf(currentHash)
  /\ UNCHANGED <<kvHistory, tracker, turnNo, pc, update, ctx, history,
                 messages, response, iterations, blockIdx, toolResults,
                 assistantText, outbox, outcome, modelCalls, kvWrites, script,
                 allToolUse, saved, streak>>
  /\ UNCHANGED functionVars
  /\ UNCHANGED webhookVars
  /\ UNCHANGED scriptVars
  /\ UNCHANGED fetched
  /\ UNCHANGED workspace

\* ---- the state after deployment: empty store, no invocation running
\* the bindings of a deployment that registered its webhook with a secret
Deployed == [WEBHOOK_SECRET |-> "s3cret", TELEGRAM_CHAT_ID |-> "42"]

NoRequest == [request |-> [route |-> ""], response |-> [status |-> 0, body |-> ""],
              turn |-> 0]
NoRun == [day |-> 0, kind |-> "none", text |-> ""]

InitWorker ==
  /\ kvHistory = [present |-> FALSE, value |-> << >>]
  /\ kvCache = [present |-> FALSE]
  /\ tracker = InitTracker
  /\ workspace = InitWorkspace
  /\ turnNo = 0
  /\ faults = 0
  /\ pc = [p \in Procs |-> "idle"]
  /\ update = [p \in Procs |-> NoUpdate]
  /\ ctx = [p \in Procs |-> NoContext]
  /\ history = [p \in Procs |-> << >>]
  /\ messages = [p \in Procs |-> << >>]
  /\ response = [p \in Procs |-> NoResponse]
  /\ iterations = [p \in Procs |-> 0]
  /\ blockIdx = [p \in Procs |-> 0]
  /\ toolResults = [p \in Procs |-> << >>]
  /\ assistantText = [p \in Procs |-> ""]
  /\ outbox = [p \in Procs |-> << >>]
  /\ outcome = [p \in Procs |-> "none"]
  /\ modelCalls = [p \in Procs |-> 0]
  /\ kvWrites = [p \in Procs |-> 0]
  /\ script = [p \in Procs |-> "status"]
  /\ allToolUse = [p \in Procs |-> TRUE]
  /\ saved = 0
  /\ streak = 0
  /\ today = 0
  /\ bKind = "none"
  /\ bSent = << >>
  /\ bModelCalls = 0
  /\ bRead = [present |-> FALSE]
  /\ genText = ""
  /\ hits = 0
  /\ lastHash = [valid |-> FALSE]
  /\ sameRuns = 0
  /\ fetched = [p \in Procs |-> << >>]
  /\ http = NoRequest
  /\ fileCache = [present |-> FALSE]
  /\ scriptRun = NoRun

NoSnapshots == [kind |-> "none", field |-> "", a |-> << >>, b |-> << >>]
NoFingerprints == [done |-> FALSE, a |-> << >>, b |-> << >>]

Init ==
  /\ InitWorker
  /\ env = Deployed
  /\ fpIn = NoSnapshots
  /\ fpOut = NoFingerprints
  /\ execLog = << >>

vars == <<kvHistory, kvCache, tracker, turnNo, faults, pc, update, ctx, history,
          messages, response, iterations, blockIdx, toolResults, assistantText,
          outbox, outcome, modelCalls, kvWrites, script, allToolUse, saved,
          streak, today, bKind, bSent, bModelCalls, bRead, genText, hits,
          lastHash, sameRuns, fpIn, fpOut, workspace, execLog, fetched,
          env, http, fileCache, scriptRun>>

\* ---- the agent loop: a few chat turns with every kind of model response
AgentTexts == {"Mark YAK-1 as done", "/clear", "/Help"}

Next ==
  \E p \in SeqProcs :
    \/ ReceiveText(p, AgentTexts, Scripts, MaxTurns)
    \/ HandleCommand(p, AgentTexts, MaxTurns)
    \/ FetchCompletes(p)
    \/ FetchContext(p)
    \/ FetchFails(p)
    \/ LoadHistory(p)
    \/ ModelResponds(p, AgentResponses(script[p], iterations[p]))
    \/ ModelFails(p)
    \/ ExecuteNextTool(p)
    \/ FeedResults(p)
    \/ SaveHistory(p)
    \/ SendReply(p)

Spec == Init /\ [][Next]_vars

\* ---- conversation memory: many sequential turns, each answered at once.
\* The k-th exchange to be saved is the user text "m<k>" and the reply "r<k>"
MemoryTexts == {"m" \o ToString(saved + 1), "/clear"}

MemoryResponses ==
  { [stop_reason |-> "end_turn", hasContent |-> TRUE,
     content |-> << TextBlock("r" \o ToString(saved + 1)) >>] }

NextMemory ==
  \E p \in SeqProcs :
    \/ ReceiveText(p, MemoryTexts, {"status"}, MaxMemTurns)
    \/ HandleCommand(p, MemoryTexts, MaxMemTurns)
    \/ FetchCompletes(p)
    \/ FetchContext(p)
    \/ FetchFails(p)
    \/ LoadHistory(p)
    \/ ModelResponds(p, MemoryResponses)
    \/ ModelFails(p)
    \/ SaveHistory(p)
    \/ SendReply(p)

SpecMemory == Init /\ [][NextMemory]_vars

\* ---- properties of the agent loop (Spec)
Finished(p) == pc[p] \in {"save", "send"} \/ (pc[p] = "idle" /\ outcome[p] = "replied")

C2_FinalTextNeverEmpty ==
  \A p \in SeqProcs :
    /\ Finished(p) => assistantText[p] # ""
    /\ pc[p] = "save" =>
         LET segs == TextSegments(response[p])
         IN /\ segs = << >> => assistantText[p] = FallbackText
            /\ Join(segs, "\n") # "" => assistantText[p] = Join(segs, "\n")
            /\ Join(segs, "\n") = "" => assistantText[p] = FallbackText
    /\ (pc[p] = "idle" /\ outcome[p] = "replied") =>
         outbox[p] = << assistantText[p] >>

C2_Witness ==
  \E p \in SeqProcs :
    /\ pc[p] = "save"
    /\ TextSegments(response[p]) = << "" >>
    /\ assistantText[p] = FallbackText

\* the texts a conversation entry can hold
KnownTexts ==
  {t \in AgentTexts : ~StartsWithSlash(t)} \cup
  {ExtractText(r) : r \in FinalResponses \cup
     UNION {ToolUseResponses(s, n) : s \in Scripts, n \in 0..MAX_ITERATIONS}}

IsTextTurn(e) ==
  /\ DOMAIN e = {"role", "content"}
  /\ e.role \in {"user", "assistant"}
  /\ \E t \in KnownTexts : e.content = t

C3_State ==
  \A p \in SeqProcs :
    /\ pc[p] \in {"fetch", "load", "call", "tools", "save"} => kvWrites[p] = 0
    /\ (pc[p] = "send" \/ (pc[p] = "idle" /\ outcome[p] = "replied")) =>
         /\ kvWrites[p] = 1
         /\ kvHistory.present
         /\ Len(kvHistory.value) >= 2
         /\ kvHistory.value[Len(kvHistory.value) - 1] =
              [role |-> "user", content |-> update[p].text]
         /\ kvHistory.value[Len(kvHistory.value)] =
              [role |-> "assistant", content |-> assistantText[p]]
    /\ \A i \in 1..Len(kvHistory.value) : IsTextTurn(kvHistory.value[i])

C3_Step ==
  \A p \in SeqProcs :
    (pc[p] # "idle" /\ kvHistory' # kvHistory) =>
      LET old == history[p]
          new == kvHistory'.value
          kept == Len(new) - 2
      IN /\ pc[p] = "save"
         /\ kvHistory'.present
         /\ Len(new) = IF Len(old) + 2 <= 2 * MAX_HISTORY_PAIRS
                       THEN Len(old) + 2 ELSE 2 * MAX_HISTORY_PAIRS
         /\ \A i \in 1..kept : new[i] = old[Len(old) - kept + i]

\* C3: a turn that ends normally writes the conversation history exactly once,
\* after the loop; the write appends the user text and then the final text to
\* the loaded history; no stored entry holds tool blocks or tool results
C3_OneWriteOfTwoTextEntries == [](C3_State) /\ [][C3_Step]_vars

C3_Witness ==
  \E p \in SeqProcs :
    /\ pc[p] = "send"
    /\ iterations[p] >= 2
    /\ Len(kvHistory.value) = 4

\* ---- properties of the conversation memory (SpecMemory)
\* C4: the stored history never has more than 2 * MAX_HISTORY_PAIRS entries
C4_HistoryBounded ==
  Len(kvHistory.value) <= 2 * MAX_HISTORY_PAIRS

C4_Witness ==
  /\ Len(kvHistory.value) = 2 * MAX_HISTORY_PAIRS
  /\ streak > MAX_HISTORY_PAIRS

\* C5: once more than MAX_HISTORY_PAIRS exchanges have been saved in a row,
\* the store holds exactly the last MAX_HISTORY_PAIRS of them, oldest first
C5_KeepsMostRecentPairs ==
  streak > MAX_HISTORY_PAIRS =>
    /\ Len(kvHistory.value) = 2 * MAX_HISTORY_PAIRS
    /\ \A j \in 1..MAX_HISTORY_PAIRS :
         LET k == saved - MAX_HISTORY_PAIRS + j
         IN /\ kvHistory.value[2 * j - 1] =
                 [role |-> "user", content |-> "m" \o ToString(k)]
            /\ kvHistory.value[2 * j] =
                 [role |-> "assistant", content |-> "r" \o ToString(k)]

C5_Witness ==
  /\ streak > MAX_HISTORY_PAIRS + 1
  /\ Len(kvHistory.value) = 2 * MAX_HISTORY_PAIRS
  /\ kvHistory.value[1].content = "m" \o ToString(saved - MAX_HISTORY_PAIRS + 1)

\* ---- the daily briefing: scheduled runs over a tracker that changes
NextBriefing ==
  \/ TrackerEdited
  \/ ScheduledBriefing

SpecBriefing == Init /\ [][NextBriefing]_vars

\* ---- properties of the daily briefing (SpecBriefing)
\* a step that is one scheduled run
RunStep == today' = today + 1

\* C6 as stated, for runs in which no external call failed: the 3rd of three
\* consecutive runs over identical fingerprints sends the escalation string,
\* the cached text still being the summary
C6_ThirdRunEscalates ==
  (faults = 0 /\ bKind \in {"hit", "miss"} /\ sameRuns = 3) =>
    /\ bSent = << EscalationText >>
    /\ kvCache.value.briefing = genText

\* C6 amended: the escalation string is sent by the run that finds the stored
\* fingerprint unchanged for the STALE_DAYS_THRESHOLD-th time since the summary
\* was generated (the 4th consecutive run over identical fingerprints when the
\* first of them generated it); the earlier unchanged runs send the cached
\* summary; the cached text stays the generated summary
C6_ThirdUnchangedRunEscalates ==
  bKind = "hit" =>
    /\ hits = STALE_DAYS_THRESHOLD => bSent = << EscalationText >>
    /\ hits < STALE_DAYS_THRESHOLD => bSent = << genText >>
    /\ kvCache.value.briefing = genText
    /\ genText \in SummaryTexts

C6_Witness ==
  /\ bKind = "hit"
  /\ hits = STALE_DAYS_THRESHOLD
  /\ sameRuns = STALE_DAYS_THRESHOLD + 1
  /\ bSent = << EscalationText >>
  /\ kvCache.value.briefing = genText

C7_Step ==
  (RunStep /\ bKind' \in {"hit", "miss"}) =>
    LET h == hashIssues(tracker)
    IN /\ bRead'.present => bRead' = kvCache
       /\ kvCache'.present
       /\ (~kvCache.present \/ kvCache.value.hash # h) =>
            kvCache'.value.unchangedDays = 0
       /\ (kvCache.present /\ kvCache.value.hash = h /\ bRead'.present) =>
            kvCache'.value.unchangedDays = kvCache.value.unchangedDays + 1

\* C7: a run over a non-empty snapshot writes unchangedDays = 0 when there is
\* no stored record or its fingerprint differs, and the stored count + 1 when
\* the fingerprint of the record it read equals the current one
C7_UnchangedDaysResetsOrIncrements == [][C7_Step]_vars

C7_Witness ==
  /\ bKind = "hit"
  /\ kvCache.present
  /\ kvCache.value.unchangedDays = 2

\* C8: the cached text is always the text the model returned at the latest
\* regeneration; runs that reuse it or escalate do not replace it, and the
\* escalation string is never the cached text
C8_CachedTextIsLastGenerated ==
  kvCache.present =>
    /\ kvCache.value.briefing = genText
    /\ kvCache.value.briefing # EscalationText

C8_Witness ==
  /\ bKind = "hit"
  /\ hits > STALE_DAYS_THRESHOLD
  /\ bSent = << EscalationText >>
  /\ kvCache.value.briefing = genText

C9_Step ==
  (RunStep /\ Len(tracker) = 0 /\ bKind' # "fetch_failed") =>
    /\ bKind' = "no_issues"
    /\ bSent' = << NoIssuesText >>
    /\ bModelCalls' = 0
    /\ kvCache' = kvCache
    /\ genText' = genText

\* C9: a scheduled run that fetches zero issues sends the fixed message,
\* calls no model and leaves the stored record as it was
C9_EmptySnapshotBypassesCache == [][C9_Step]_vars

C9_Witness ==
  /\ bKind = "no_issues"
  /\ Len(tracker) = 0
  /\ kvCache.present
  /\ bSent = << NoIssuesText >>

C10_Step ==
  (RunStep /\ Len(tracker) > 0 /\ bKind' # "fetch_failed") =>
    LET h == hashIssues(tracker)
    IN /\ bRead'.present => bRead' = kvCache
       /\ bModelCalls' \in {0, 1}
       /\ bModelCalls' = 1 <=> (~bRead'.present \/ bRead'.value.hash # h)
       /\ (~kvCache.present \/ kvCache.value.hash # h) => bModelCalls' = 1
       /\ bKind' = "miss" =>
            /\ bModelCalls' = 1
            /\ bSent'[1] \in SummaryTexts
            /\ kvCache' = [present |-> TRUE,
                           value |-> [hash |-> h, briefing |-> bSent'[1],
                                      unchangedDays |-> 0, lastRun |-> today']]

\* C10: a run over a non-empty snapshot calls the model exactly when the
\* record it read is missing or has another fingerprint, and then stores the
\* current fingerprint, the new summary and the count 0; a run that reads a
\* record with the current fingerprint does not call the model
C10_ModelCalledOnlyOnMiss == [][C10_Step]_vars

C10_Witness ==
  /\ bKind = "miss"
  /\ bRead.present
  /\ bRead.value.hash # kvCache.value.hash
  /\ kvCache.value.unchangedDays = 0

\* ---- the fingerprint function applied to pairs of snapshots
IssuePool == {Issue1, Issue2, Issue3}

\* the orderings of a sequence of distinct elements
Orderings(seq) ==
  {t \in [1..Len(seq) -> Range(seq)] : Range(t) = Range(seq)}

\* snapshots of issues with pairwise distinct identifiers, in any order
OrderedSnapshots ==
  UNION {{a \in [1..n -> IssuePool] :
            \A i, j \in 1..n : i # j => a[i].identifier # a[j].identifier}
         : n \in 1..MaxSnapshotLen}

\* the issue with its labels in any order
LabelOrders(issue) ==
  {[issue EXCEPT !.labels = ls] : ls \in Orderings(issue.labels)}

\* the sequences that take their i-th element from the i-th set
RECURSIVE Choices(_)
Choices(sets) ==
  IF Len(sets) = 0 THEN {<< >>}
  ELSE {<< x >> \o rest : x \in Head(sets), rest \in Choices(Tail(sets))}

\* the same set of issues in any order, each with its labels in any order
Reorderings(a) ==
  UNION {Choices([i \in 1..Len(a) |-> LabelOrders(a[q[i]])])
         : q \in Orderings([i \in 1..Len(a) |-> i])}

\* the fields hashIssues reads, and values they can change to
TrackedFields == {"state", "priority", "assignee", "project", "labels", "dueDate"}

TrackedValues(field) ==
  CASE field = "state" -> {"Todo", "Done", "In Progress"}
    [] field = "priority" -> {0, 2, 4}
    [] field = "assignee" -> {Null, "Zach", "Ana"}
    [] field = "project" -> {Null, "Portal", "Website"}
    [] field = "labels" -> {<< >>, << LabelBug >>, << LabelUrgent, LabelBug >>,
                            << LabelBugCapital, LabelBug >>,
                            << LabelBug, LabelBugCapital, LabelUrgent >>}
    [] field = "dueDate" -> {Null, "2026-01-31", "2026-02-15"}

\* fields of an issue hashIssues does not read
UntrackedFields == {"title", "description", "url", "updatedAt"}

UntrackedValues(field) ==
  CASE field = "title" -> {"Auth flow v2"}
    [] field = "description" -> {Null, "Rewritten"}
    [] field = "url" -> {"https://linear.app/yak/issue/moved"}
    [] field = "updatedAt" -> {"2026-03-01"}

\* the value differs from the issue's; labels differ as sets of names
ChangesField(issue, field, value) ==
  IF field = "labels"
  THEN {value[j].name : j \in 1..Len(value)} #
       {issue.labels[j].name : j \in 1..Len(issue.labels)}
  ELSE value # issue[field]

\* the snapshots that differ from a in the given field of exactly one issue
Edits(a, field, values) ==
  UNION {{[a EXCEPT ![k] = [a[k] EXCEPT ![field] = v]] :
            v \in {w \in values : ChangesField(a[k], field, w)}}
         : k \in 1..Len(a)}

ReorderedPairs ==
  UNION {{[kind |-> "reordered", field |-> "", a |-> a, b |-> b] :
            b \in Reorderings(a)}
         : a \in OrderedSnapshots}

TrackedPairs ==
  UNION {UNION {{[kind |-> "tracked", field |-> f, a |-> a, b |-> b] :
                   b \in UNION {Reorderings(e) : e \in Edits(a, f, TrackedValues(f))}}
                : f \in TrackedFields}
         : a \in OrderedSnapshots}

UntrackedPairs ==
  UNION {UNION {{[kind |-> "untracked", field |-> f, a |-> a, b |-> b] :
                   b \in UNION {Reorderings(e) : e \in Edits(a, f, UntrackedValues(f))}}
                : f \in UntrackedFields}
         : a \in OrderedSnapshots}

FingerprintInputs == ReorderedPairs \cup TrackedPairs \cup UntrackedPairs

InitFingerprint ==
  /\ InitWorker
  /\ env = Deployed
  /\ fpIn \in FingerprintInputs
  /\ fpOut = NoFingerprints
  /\ execLog = << >>

\* both snapshots are fingerprinted, as two runs of the briefing would
ComputeFingerprints ==
  /\ ~fpOut.done
  /\ fpOut' = [done |-> TRUE, a |-> hashIssues(fpIn.a), b |-> hashIssues(fpIn.b)]
  /\ UNCHANGED <<fpIn, execLog, workspace, fetched>>
  /\ UNCHANGED webhookVars
  /\ UNCHANGED scriptVars
  /\ UNCHANGED briefingVars
  /\ UNCHANGED <<kvHistory, kvCache, tracker, turnNo, faults, pc, update, ctx,
                 history, messages, response, iterations, blockIdx,
                 toolResults, assistantText, outbox, outcome, modelCalls,
                 kvWrites, script, allToolUse, saved, streak>>

NextFingerprint == ComputeFingerprints

SpecFingerprint == InitFingerprint /\ [][NextFingerprint]_vars

\* ---- properties of the fingerprint (SpecFingerprint)
\* C11: two orderings of one set of issues with pairwise distinct identifiers,
\* each issue's labels in any order, have the same fingerprint
C11_FingerprintIgnoresOrder ==
  (fpOut.done /\ fpIn.kind = "reordered") => fpOut.a = fpOut.b

C11_Witness ==
  /\ fpOut.done /\ fpIn.kind = "reordered"
  /\ Len(fpIn.a) = 2
  /\ fpIn.a[1].identifier = fpIn.b[2].identifier
  /\ fpIn.a[1].labels # fpIn.b[2].labels
  /\ fpOut.a = fpOut.b

\* C12: with the digest taken as injective, a change of the status name, the
\* priority, the assignee name, the project name, the set of label names or
\* the due date of one issue changes the fingerprint, and a change of only
\* the title, the description, the url or a timestamp does not
C12_FingerprintTracksFields ==
  fpOut.done =>
    /\ fpIn.kind = "tracked" => fpOut.a # fpOut.b
    /\ fpIn.kind = "untracked" => fpOut.a = fpOut.b

C12_Witness ==
  /\ fpOut.done /\ fpIn.kind = "tracked" /\ fpIn.field = "dueDate"
  /\ Len(fpIn.a) = 2
  /\ fpOut.a # fpOut.b

\* ---- the tool executor applied on its own: snapshots are taken as at the
\* start of a turn, and tools are executed against the latest snapshot
\* how a tool call can name its issue
IssueRefs == {Str("yak-1"), Str("Yak-1"), Str("yak-2")}

\* the tools that take issue_identifier, each with a parameter it accepts ...
IssueTools ==
  {[name |-> "update_issue_status", input |-> [status |-> Str("DONE")]],
   [name |-> "update_issue_priority", input |-> [priority |-> Num(1)]],
   [name |-> "add_comment", input |-> [comment |-> Str("Waiting on assets")]],
   [name |-> "add_label", input |-> [label_name |-> Str("Later")]],
   [name |-> "assign_issue", input |-> [assignee_name |-> Str("ZA")]],
   [name |-> "update_due_date", input |-> [due_date |-> Str("2026-02-15")]]}

\* ... and the calls that leave the identifier out
WithoutIssue == {[name |-> t.name, input |-> t.input] : t \in IssueTools}

WithIssue(ref) ==
  {[name |-> t.name, input |-> ("issue_identifier" :> ref) @@ t.input] : t \in IssueTools}

\* calls on YAK-1 with other parameters: unknown, missing or wrongly typed
ParameterCalls ==
  {[name |-> "update_issue_status", input |-> [issue_identifier |-> Str("yak-1")]],
   [name |-> "update_issue_status",
    input |-> [issue_identifier |-> Num(1), status |-> Str("done")]],
   [name |-> "update_issue_status",
    input |-> [issue_identifier |-> Str("yak-1"), status |-> Str("nope")]],
   [name |-> "update_issue_priority", input |-> [issue_identifier |-> Str("yak-1")]],
   [name |-> "update_issue_priority",
    input |-> [issue_identifier |-> Str("yak-1"), priority |-> Str("high")]],
   [name |-> "add_comment", input |-> [issue_identifier |-> Str("yak-1")]],
   [name |-> "add_label", input |-> [issue_identifier |-> Str("yak-1")]],
   [name |-> "add_label",
    input |-> [issue_identifier |-> Str("yak-1"), label_name |-> Num(3)]],
   [name |-> "add_label",
    input |-> [issue_identifier |-> Str("yak-1"), label_name |-> Str("blocked")]],
   [name |-> "add_label",
    input |-> [issue_identifier |-> Str("YAK-1"), label_name |-> Str("URGENT")]],
   [name |-> "assign_issue", input |-> [issue_identifier |-> Str("yak-1")]],
   [name |-> "assign_issue",
    input |-> [issue_identifier |-> Str("yak-1"), assignee_name |-> Str("bob")]],
   [name |-> "update_due_date", input |-> [issue_identifier |-> Str("yak-1")]],
   [name |-> "update_due_date",
    input |-> [issue_identifier |-> Str("yak-1"), due_date |-> Str("tomorrow")]],
   [name |-> "update_due_date",
    input |-> [issue_identifier |-> Str("yak-1"), due_date |-> Num(5)]]}

CreateCalls ==
  {[name |-> "create_issue", input |-> [title |-> Str("Fix login")]],
   [name |-> "create_issue", input |-> << >>],
   [name |-> "create_issue",
    input |-> [title |-> Str("Set up staging"), priority |-> Num(1),
               due_date |-> Str("2026-01-31"), project_name |-> Str("Portal"),
               status |-> Str("todo"),
               subtasks |-> Arr(<< [title |-> Str("Provision")],
                                   [title |-> Str("Deploy"), priority |-> Str("high")] >>)]],
   [name |-> "create_issue",
    input |-> [title |-> Str("Fix login"), project_name |-> Num(5)]],
   [name |-> "create_issue",
    input |-> [title |-> Str("Fix login"), status |-> Str("nope")]],
   [name |-> "create_issue",
    input |-> [title |-> Str("Ship"), project_name |-> Str("portal"),
               subtasks |-> Arr(<< [title |-> Str("Build")],
                                   [title |-> Str("Test"),
                                    due_date |-> Str("2026-02-15")] >>)]],
   [name |-> "create_project", input |-> [name |-> Str("Website")]],
   [name |-> "create_project", input |-> [description |-> Str("No name")]],
   [name |-> "frobnicate", input |-> [x |-> Str("1")]]}

ToolCalls ==
  UNION {WithIssue(ref) : ref \in IssueRefs} \cup WithoutIssue \cup ParameterCalls
  \cup CreateCalls

\* a new turn fetches the state of Linear
ExecutorSnapshot ==
  /\ ctx[1] # Snapshot(tracker, workspace)
  /\ ctx' = [ctx EXCEPT ![1] = Snapshot(tracker, workspace)]
  /\ UNCHANGED briefingVars
  /\ UNCHANGED <<kvHistory, kvCache, tracker, workspace, turnNo, faults, pc,
                 update, history, messages, response, iterations, blockIdx,
                 toolResults, assistantText, outbox, outcome, modelCalls,
                 kvWrites, script, allToolUse, saved, streak, fpIn, fpOut,
                 execLog, fetched>>
  /\ UNCHANGED webhookVars
  /\ UNCHANGED scriptVars

\* executeTool is called with the latest snapshot
ExecutorCall ==
  /\ ctx[1] # NoContext
  /\ Len(execLog) > 0 => execLog[Len(execLog)].seq < MaxExec
  /\ \E call \in ToolCalls :
       \E out \in {Outcomes(call.name, call.input, ctx[1],
                            Linear(tracker, workspace))} :
         \E fate \in Fates :
           /\ Takes(fate, out)
           /\ tracker' = out[fate].linear.issues
           /\ workspace' = [labels |-> out[fate].linear.labels,
                            projects |-> out[fate].linear.projects,
                            comments |-> out[fate].linear.comments]
           /\ execLog' = SliceLast(Append(execLog,
                 [seq |-> IF Len(execLog) = 0 THEN 1
                          ELSE execLog[Len(execLog)].seq + 1,
                  name |-> call.name, input |-> call.input,
                  threw |-> out[fate].threw, result |-> out[fate].result,
                  requests |-> out[fate].requests, fate |-> fate,
                  snapshot |-> ctx[1], issues |-> out[fate].linear.issues]), 2)
  /\ UNCHANGED briefingVars
  /\ UNCHANGED <<kvHistory, kvCache, turnNo, faults, pc, update, ctx, history,
                 messages, response, iterations, blockIdx, toolResults,
                 assistantText, outbox, outcome, modelCalls, kvWrites, script,
                 allToolUse, saved, streak, fpIn, fpOut, fetched>>
  /\ UNCHANGED webhookVars
  /\ UNCHANGED scriptVars

NextExecutor ==
  \/ ExecutorSnapshot
  \/ ExecutorCall

SpecExecutor == Init /\ [][NextExecutor]_vars

\* ---- the executor's contract
\* a result is a success payload or a failure that carries only its text
IsSuccess(result) == "success" \in DOMAIN result /\ result.success = TRUE
IsFailure(result) == DOMAIN result = {"error"}

\* C13: executeTool never throws: whatever the tool name, the parameters and
\* the fate of the Linear requests, it returns a success payload or an
\* {error: text} failure.
C13_ExecuteToolAlwaysReturns ==
  \A k \in 1..Len(execLog) :
    /\ ~execLog[k].threw
    /\ IsSuccess(execLog[k].result) \/ IsFailure(execLog[k].result)
    /\ ~(IsSuccess(execLog[k].result) /\ "error" \in DOMAIN execLog[k].result)

\* a call without its identifier and a call whose Linear request failed were
\* both answered with a failure
C13_Witness ==
  /\ Len(execLog) = 2
  /\ "issue_identifier" \notin DOMAIN execLog[1].input
  /\ execLog[1].name = "add_comment"
  /\ execLog[1].result = [error |-> "Tool \"add_comment\" failed: " \o TypeErrorText]
  /\ execLog[2].fate.failAt = 1 /\ execLog[2].requests = 1
  /\ IsFailure(execLog[2].result)
  /\ ~execLog[2].threw

\* the identifiers that differ only in the case of their letters
CaseClasses ==
  {{"yak-1", "Yak-1", "yAK-1", "YAK-1"}, {"yak-2", "Yak-2", "YAK-2"},
   {"yak-3", "Yak-3", "YAK-3"}, {"yak-4", "YAK-4"}, {"yak-5", "YAK-5"},
   {"yak-6", "YAK-6"}, {"yak-7", "YAK-7"}, {"yak-8", "YAK-8"}}
SameIgnoringCase(a, b) == a = b \/ \E cls \in CaseClasses : a \in cls /\ b \in cls

IssueToolNames == {t.name : t \in IssueTools}

\* the executions of issue tools that were given a string as identifier
ResolvingEntries ==
  {k \in 1..Len(execLog) :
     /\ execLog[k].name \in IssueToolNames
     /\ Prop(execLog[k].input, "issue_identifier").type = "string"}

\* the issues of the snapshot whose identifier is the given one up to case
MatchedIssues(e) ==
  {j \in 1..Len(e.snapshot.issues) :
     SameIgnoringCase(e.input.issue_identifier.val, e.snapshot.issues[j].identifier)}

ValidState(e) ==
  /\ Prop(e.input, "status").type = "string"
  /\ \E j \in 1..Len(e.snapshot.states) :
       ToLowerCase(e.snapshot.states[j].name) = ToLowerCase(e.input.status.val)

\* C14: every issue tool resolves its issue by comparing the identifier it is
\* given with the identifiers of the snapshot's issues regardless of case: with
\* no match the result is the failure naming the identifier and nothing is
\* requested; with a match the call acts on the matched issue, and a status
\* update to a valid state whose request succeeds reports the new state, which
\* the tracker then holds.
C14_ResolvesIgnoringCase ==
  \A k \in ResolvingEntries :
    LET e == execLog[k]
        given == e.input.issue_identifier.val
    IN /\ MatchedIssues(e) = {} =>
            e.result = IssueNotFound(given) /\ e.requests = 0
       /\ \A j \in MatchedIssues(e) :
            LET issue == e.snapshot.issues[j]
            IN /\ e.result # IssueNotFound(given)
               /\ (IsSuccess(e.result) /\ "issue" \in DOMAIN e.result)
                    => e.result.issue = issue.identifier
               /\ (e.name = "update_issue_status" /\ ValidState(e) /\ e.fate = NoFault)
                    => /\ IsSuccess(e.result)
                       /\ ToLowerCase(e.result.new_status) = ToLowerCase(e.input.status.val)
                       /\ \E i \in 1..Len(e.issues) :
                            /\ e.issues[i].id = issue.id
                            /\ e.issues[i].state = e.result.new_status

\* YAK-1 was moved to Done under the name "Yak-1", and "yak-2", which the
\* snapshot does not hold, was refused
C14_Witness ==
  /\ Len(execLog) = 2
  /\ execLog[1].name = "update_issue_status"
  /\ Prop(execLog[1].input, "issue_identifier") = Str("Yak-1")
  /\ IsSuccess(execLog[1].result) /\ execLog[1].result.new_status = "Done"
  /\ execLog[1].result.issue = "YAK-1"
  /\ tracker[1].state = "Done"
  /\ execLog[2].name = "assign_issue"
  /\ Prop(execLog[2].input, "issue_identifier") = Str("yak-2")
  /\ execLog[2].result = IssueNotFound("yak-2")
  /\ \A j \in 1..Len(execLog[2].snapshot.issues) :
       execLog[2].snapshot.issues[j].identifier # "YAK-2"

\* the last two executions were add_label with one label name on one issue of
\* the snapshots, no request of either was made to fail, and the first succeeded
AddedLabelTwice ==
  /\ Len(execLog) = 2
  /\ execLog[1].name = "add_label" /\ execLog[2].name = "add_label"
  /\ execLog[1].input = execLog[2].input
  /\ Prop(execLog[1].input, "issue_identifier").type = "string"
  /\ Prop(execLog[1].input, "label_name").type = "string"
  /\ MatchedIssues(execLog[1]) # {} /\ MatchedIssues(execLog[2]) # {}
  /\ execLog[1].fate.failAt = 0 /\ execLog[2].fate.failAt = 0
  /\ IsSuccess(execLog[1].result)

\* the labels of that name on the issue at the tracker
LabelsOfThatName ==
  LET e == execLog[2]
      id == e.snapshot.issues[CHOOSE j \in MatchedIssues(e) : TRUE].id
      issue == tracker[CHOOSE i \in 1..Len(tracker) : tracker[i].id = id]
  IN {j \in 1..Len(issue.labels) :
        ToLowerCase(issue.labels[j].name) = ToLowerCase(e.input.label_name.val)}

\* C15: add_label invoked twice with the same label name on the same issue
\* succeeds both times, and the issue then carries exactly one label of that
\* name.
C15_AddLabelIdempotent ==
  AddedLabelTwice =>
    /\ IsSuccess(execLog[2].result)
    /\ Cardinality(LabelsOfThatName) = 1

\* ---- the agent loop's exchange of requests and results (Spec)
IsToolUse(block) == block.type = "tool_use"
ToolUses(resp) == SelectSeq(resp.content, IsToolUse)

\* the results answer the requests one for one: same number, same ids, same
\* order, each holding a success payload or a failure
AnswersEach(results, requests) ==
  /\ Len(results) = Len(requests)
  /\ \A i \in 1..Len(requests) :
       /\ results[i].type = "tool_result"
       /\ results[i].tool_use_id = requests[i].id
       /\ IsSuccess(results[i].content) \/ IsFailure(results[i].content)

C16_Step ==
  \A p \in SeqProcs :
    (pc[p] = "tools" /\ pc'[p] = "call") =>
      LET sent == messages'[p][Len(messages'[p])]
          echoed == messages'[p][Len(messages'[p]) - 1]
      IN /\ Len(messages'[p]) = Len(messages[p]) + 2
         /\ echoed = [role |-> "assistant", content |-> response[p].content]
         /\ sent.role = "user"
         /\ AnswersEach(sent.content, ToolUses(response[p]))

\* C16: in every round the message of tool results sent back to the model
\* holds exactly one result for each tool_use block of the response just
\* received, with that block's id, in the order of the blocks, whether the
\* tool succeeded or failed.
C16_OneResultPerRequest == [][C16_Step]_vars

\* a round with one request answered by a success has been fed back after a
\* round with two requests that both failed
C16_Witness ==
  \E p \in SeqProcs :
    /\ pc[p] = "call" /\ iterations[p] = 2
    /\ LET n == Len(messages[p])
       IN /\ messages[p][n - 3].content = UnresolvedRequests(0).content
          /\ Len(messages[p][n - 2].content) = 2
          /\ messages[p][n - 2].content[1].tool_use_id = ToolId(0, 1)
          /\ messages[p][n - 2].content[2].tool_use_id = ToolId(0, 2)
          /\ IsFailure(messages[p][n - 2].content[1].content)
          /\ IsFailure(messages[p][n - 2].content[2].content)
          /\ Len(messages[p][n].content) = 1
          /\ messages[p][n].content[1].tool_use_id = ToolId(1, 1)
          /\ IsSuccess(messages[p][n].content[1].content)

\* a response has just been received below the ceiling
ReceivedBelowCeiling(p) ==
  /\ pc[p] = "call" /\ pc'[p] \in {"tools", "save"}
  /\ iterations[p] < MAX_ITERATIONS

C17_OriginalStep ==
  \A p \in SeqProcs :
    ReceivedBelowCeiling(p) =>
      /\ pc'[p] = "tools" <=> Len(ToolUses(response'[p])) > 0
      /\ pc'[p] = "save" <=> Len(ToolUses(response'[p])) = 0

C17_Step ==
  \A p \in SeqProcs :
    /\ ReceivedBelowCeiling(p) =>
         /\ pc'[p] = "tools" <=> response'[p].stop_reason = "tool_use"
         /\ pc'[p] = "save" <=> response'[p].stop_reason # "tool_use"
         /\ pc'[p] = "save" => UNCHANGED <<tracker, workspace, toolResults>>
    /\ (pc[p] = "tools" /\ pc'[p] = "call") =>
         Len(toolResults[p]) = Len(ToolUses(response[p]))

ThrownErrors ==
  {"Linear API HTTP 500: Internal Server Error", "Anthropic API 529: overloaded"}
Diagnostics ==
  {"Something broke: " \o m \o "\n\nTry again or check the Worker logs." :
     m \in ThrownErrors}

\* the invocation is a chat turn, not a command
ChatTurn(p) == update[p] # NoUpdate /\ ~StartsWithSlash(update[p].text)

C18_State ==
  \A p \in SeqProcs :
    (ChatTurn(p) /\ outcome[p] = "error") =>
      /\ Len(outbox[p]) = 1 /\ outbox[p][1] \in Diagnostics
      /\ kvWrites[p] = 0

C18_Step ==
  \A p \in SeqProcs :
    /\ (ChatTurn(p) /\ outcome[p] = "running" /\ outcome'[p] = "error") =>
         /\ pc[p] \in {"fetch", "call"} /\ pc'[p] = "idle"
         /\ kvHistory' = kvHistory
    /\ (ChatTurn(p) /\ outcome[p] = "running" /\ kvWrites[p] = 0) =>
         (kvHistory' = kvHistory \/ pc[p] = "save")

\* C18: when a snapshot fetch or a model call throws during a chat turn,
\* before the first model call or after tools have been executed, the turn
\* sends exactly one message, the diagnostic, and ends with no write to the
\* conversation memory: the stored history is what it was before the turn.
C18_ThrownErrorReportedOnce == [](C18_State) /\ [][C18_Step]_vars

\* the model call failed after a round that moved YAK-1 to Done
C18_Witness ==
  \E p \in SeqProcs :
    /\ ChatTurn(p) /\ outcome[p] = "error" /\ pc[p] = "idle"
    /\ iterations[p] = 1 /\ modelCalls[p] = 2
    /\ tracker[1].state = "Done"
    /\ outbox[p] = << "Something broke: Anthropic API 529: overloaded"
                       \o "\n\nTry again or check the Worker logs." >>
    /\ kvWrites[p] = 0

\* ---- failures on the scheduled path (SpecBriefing)
\* the ways a run may end: with a message sent, having changed nothing or
\* having written the cache
HandledKinds == {"none", "fetch_failed", "no_issues", "hit", "miss"}

\* C19: every failure of an external call ends the invocation in a message to
\* the user or in a silent no-op; none leaves the handler as a rejected
\* promise, in particular not a model failure while the briefing is
\* regenerated by the scheduled run.
C19_NoFailureEscapes ==
  /\ bKind \in HandledKinds
  /\ bKind # "none" => Len(bSent) = 1

\* ---- the join of the six snapshot fetches (Spec)
\* the agent is at work: between the join and the reply
AgentRuns(p) == pc[p] \in {"load", "call", "tools", "save", "send"}

C20_State ==
  \A p \in SeqProcs :
    /\ pc[p] = "fetch" => (modelCalls[p] = 0 /\ kvWrites[p] = 0)
    /\ (AgentRuns(p) /\ ChatTurn(p)) =>
         /\ DOMAIN fetched[p] = Parts
         /\ pc[p] # "send" => ctx[p] = fetched[p]
         /\ fetched[p].states = WorkflowStates /\ fetched[p].teamId = TeamId
         /\ fetched[p].members = Members
         /\ \A part \in Parts : fetched[p][part] # NoContext[part]

C20_Step ==
  \A p \in SeqProcs :
    /\ (pc[p] = "fetch" /\ pc'[p] = "load") =>
         /\ fetched[p] = Snapshot(tracker, workspace)
         /\ ctx'[p] = fetched[p]
    /\ (pc[p] = "fetch" /\ faults' # faults) =>
         /\ pc'[p] = "idle" /\ outcome'[p] = "error"
         /\ Len(outbox'[p]) = 1 /\ outbox'[p][1] \in Diagnostics
         /\ modelCalls'[p] = 0 /\ kvWrites'[p] = 0
         /\ UNCHANGED <<tracker, workspace, kvHistory>>

\* C20: the six snapshot fetches of a chat turn are joined all or nothing: when
\* one of them fails, whichever of the others have resolved, the turn reports
\* the error and makes no model call, executes no tool and writes no memory;
\* the agent only ever runs on a snapshot all six parts of which resolved.
C20_SnapshotAllOrNothing == [](C20_State) /\ [][C20_Step]_vars

\* the fetch of the issues failed after the five others had resolved
C20_Witness ==
  \E p \in SeqProcs :
    /\ ChatTurn(p) /\ pc[p] = "idle" /\ outcome[p] = "error"
    /\ DOMAIN fetched[p] = Parts \ {"issues"}
    /\ modelCalls[p] = 0 /\ kvWrites[p] = 0
    /\ Len(outbox[p]) = 1
    /\ ctx[p] = NoContext

\* ---- index.js: the fetch handler in front of processMessage
\* headers.get gives null for a header the request does not carry
Tokens == {"s3cret", "guess", Null}

\* message.chat.id is a number; 42 is the owner's chat
ChatIds == {42, 7}

WebhookTexts == {"Mark YAK-1 as done", "/clear"}

\* the message object of an update; a photo, say, carries no text
TelegramMessages ==
  [chat : [id : ChatIds], text : WebhookTexts] \cup [chat : [id : ChatIds]]

\* the JSON bodies Telegram posts: a new message, an edited one, or an update
\* of another kind
TelegramUpdates ==
  [update_id : {1}, message : TelegramMessages]
    \cup [update_id : {1}, edited_message : TelegramMessages]
    \cup [update_id : {1}]

Requests ==
  [route : {"POST /webhook"}, token : Tokens, body : TelegramUpdates]
    \cup {[route |-> "GET /"], [route |-> "GET /webhook"]}

\* telegram.js parseUpdate: null (NoUpdate) unless the update is a message
\* with text
parseUpdate(body) ==
  LET key == IF "message" \in DOMAIN body THEN "message" ELSE "edited_message"
  IN IF key \notin DOMAIN body THEN NoUpdate
     ELSE IF "text" \notin DOMAIN body[key] \/ body[key].text = "" THEN NoUpdate
     ELSE [chatId |-> ToString(body[key].chat.id), text |-> body[key].text]

\* the request has the webhook's route
IsWebhook(req) == req.route = "POST /webhook"

\* if (env.WEBHOOK_SECRET) { if (token !== env.WEBHOOK_SECRET) ... }
Unauthorized(e, req) == e.WEBHOOK_SECRET # "" /\ req.token # e.WEBHOOK_SECRET

\* a check of the secret alone
StartsForAnyChat(e, req) ==
  /\ IsWebhook(req)
  /\ ~Unauthorized(e, req)
  /\ parseUpdate(req.body) # NoUpdate

\* the request reaches execCtx.waitUntil(processMessage(update, env))
Starts(e, req) ==
  /\ IsWebhook(req)
  /\ ~Unauthorized(e, req)
  /\ parseUpdate(req.body) # NoUpdate
  /\ parseUpdate(req.body).chatId = e.TELEGRAM_CHAT_ID

\* the Response the handler returns
Respond(e, req) ==
  IF IsWebhook(req)
  THEN IF Unauthorized(e, req) THEN [status |-> 401, body |-> "Unauthorized"]
       ELSE [status |-> 200, body |-> "OK"]
  ELSE IF req.route = "GET /"
  THEN [status |-> 200, body |-> "YakDev Agent is running."]
  ELSE [status |-> 404, body |-> "Not found"]

\* the update that was passed on has not begun its turn yet
Pending == http.turn = turnNo + 1
PendingTexts == IF Pending THEN {parseUpdate(http.request.body).text} ELSE {}

\* fetch: a request arrives and is answered; requests are taken one at a time,
\* turn is the number of the turn the request starts, 0 if it starts none
Webhook ==
  /\ ~Pending
  /\ turnNo < MaxTurns
  /\ \E req \in Requests :
       http' = [request |-> req, response |-> Respond(env, req),
                turn |-> IF Starts(env, req) THEN turnNo + 1 ELSE 0]
  /\ UNCHANGED <<kvHistory, kvCache, tracker, turnNo, faults, pc, update, ctx,
                 history, messages, response, iterations, blockIdx, toolResults,
                 assistantText, outbox, outcome, modelCalls, kvWrites, script,
                 allToolUse, saved, streak, workspace, fetched, env>>
  /\ UNCHANGED briefingVars
  /\ UNCHANGED functionVars
  /\ UNCHANGED scriptVars

\* the deployments: the webhook registered with a secret, or without one
Deployments == {Deployed, [Deployed EXCEPT !.WEBHOOK_SECRET = ""]}

InitWebhook ==
  /\ InitWorker
  /\ env \in Deployments
  /\ fpIn = NoSnapshots
  /\ fpOut = NoFingerprints
  /\ execLog = << >>

\* the model asks for one status update at most, then answers
WebhookResponses(round) ==
  { [stop_reason |-> "end_turn", hasContent |-> TRUE,
     content |-> << TextBlock("Marked done.") >>] }
    \cup IF round = 0 THEN {StatusRequest(round)} ELSE {}

NextWebhook ==
  \/ Webhook
  \/ \E p \in SeqProcs :
       \/ ReceiveText(p, PendingTexts, {"status"}, MaxTurns)
       \/ HandleCommand(p, PendingTexts, MaxTurns)
       \/ FetchCompletes(p)
       \/ FetchContext(p)
       \/ FetchFails(p)
       \/ LoadHistory(p)
       \/ ModelResponds(p, WebhookResponses(iterations[p]))
       \/ ModelFails(p)
       \/ ExecuteNextTool(p)
       \/ FeedResults(p)
       \/ SaveHistory(p)
       \/ SendReply(p)

SpecWebhook == InitWebhook /\ [][NextWebhook]_vars

\* ---- the boundary of the webhook (SpecWebhook)
\* the request carries a token other than the configured secret
SecretMismatch(req) ==
  IsWebhook(req) /\ env.WEBHOOK_SECRET # "" /\ req.token # env.WEBHOOK_SECRET

\* the request carries a message of a chat other than the configured one
ForeignChat(req) ==
  /\ IsWebhook(req)
  /\ \E key \in DOMAIN req.body \cap {"message", "edited_message"} :
       ToString(req.body[key].chat.id) # env.TELEGRAM_CHAT_ID

\* everything but the record of the latest request
AllButHttp ==
  <<kvHistory, kvCache, tracker, workspace, turnNo, faults, pc, update, ctx,
    history, messages, response, iterations, blockIdx, toolResults,
    assistantText, outbox, outcome, modelCalls, kvWrites, script, allToolUse,
    saved, streak, fetched, env, briefingVars, functionVars, scriptVars>>

Acknowledgement == [status |-> 200, body |-> "OK"]

\* a request that fails a check changes nothing and starts no turn, and every
\* turn that starts was started by a request that passed both checks
DroppedStep ==
  /\ (http' # http /\ (SecretMismatch(http'.request) \/ ForeignChat(http'.request)))
       => (UNCHANGED AllButHttp /\ http'.turn = 0)
  /\ turnNo' # turnNo
       => /\ http.turn = turnNo'
          /\ ~SecretMismatch(http.request)
          /\ ~ForeignChat(http.request)
          /\ \E p \in Procs : update'[p] = parseUpdate(http.request.body)

\* C21 as stated: a webhook request whose secret token does not match the
\* configured secret, or whose chat id differs from the configured chat id, is
\* dropped without any effect, and the sender receives only an acknowledgement
C21_OriginalStep ==
  /\ DroppedStep
  /\ (http' # http /\ (SecretMismatch(http'.request) \/ ForeignChat(http'.request)))
       => http'.response = Acknowledgement

C21_DroppedWithAcknowledgement == [][C21_OriginalStep]_vars

\* C21 (amended): a webhook request whose secret token does not match the
\* configured secret, or whose chat id differs from the configured chat id, is
\* dropped: it causes no fetch, model call, mutation, write or chat message;
\* the sender of a wrong token receives 401 Unauthorized, the sender from
\* another chat receives the acknowledgement
C21_Step ==
  /\ DroppedStep
  /\ (http' # http /\ (SecretMismatch(http'.request) \/ ForeignChat(http'.request)))
       => http'.response = IF SecretMismatch(http'.request)
                           THEN [status |-> 401, body |-> "Unauthorized"]
                           ELSE Acknowledgement

C21_DroppedWithoutEffect == [][C21_Step]_vars

\* a turn has run, and the latest request was dropped: a text message from
\* another chat that carried the right token
C21_Witness ==
  /\ turnNo > 0
  /\ outbox[1] # << >>
  /\ ForeignChat(http.request)
  /\ ~SecretMismatch(http.request)
  /\ parseUpdate(http.request.body) # NoUpdate
  /\ http.response = Acknowledgement

\* ---- the lookup of workflow states (SpecExecutor)
\* the state names that differ only in the case of their letters
StateClasses == {{"todo", "Todo", "TODO"}, {"done", "Done", "DONE"}}
SameStateName(a, b) == a = b \/ \E cls \in StateClasses : a \in cls /\ b \in cls

\* the executions that look a state name up and whose requests all succeed:
\* set status on an issue of the snapshot, and create issue with a status
StateLookups ==
  {k \in 1..Len(execLog) :
     /\ execLog[k].fate = NoFault
     /\ Prop(execLog[k].input, "status").type = "string"
     /\ \/ execLog[k].name = "create_issue"
        \/ /\ execLog[k].name = "update_issue_status"
           /\ k \in ResolvingEntries
           /\ MatchedIssues(execLog[k]) # {}}

\* the names of the snapshot's states that the given name matches
MatchedStates(e) ==
  {e.snapshot.states[j].name : j \in
     {i \in 1..Len(e.snapshot.states) :
        SameStateName(e.snapshot.states[i].name, e.input.status.val)}}

StateNotFound(e) ==
  [error |-> "State \"" \o e.input.status.val \o "\" not found. Available: "
             \o Join([j \in 1..Len(e.snapshot.states) |-> e.snapshot.states[j].name],
                     ", ")]

\* the state of the issue a successful execution reports, as the tracker
\* holds it after the execution
StateHeld(e) ==
  {e.issues[i].state : i \in {j \in 1..Len(e.issues) :
                                e.issues[j].identifier = e.result.issue}}

\* the lookup of set status
StatusLookupHolds(e) ==
  IF MatchedStates(e) = {} THEN e.result = StateNotFound(e) /\ e.requests = 0
  ELSE /\ e.result # StateNotFound(e)
       /\ IsSuccess(e.result) => StateHeld(e) \subseteq MatchedStates(e)

\* C22: for every operation that takes a workflow state name (set status, and
\* create issue with an initial status), the name is matched exactly and
\* case-insensitively against the snapshot's states, and a name with no match
\* yields a Failure that lists all valid state names
C22_StateNameMatchedOrFailure ==
  \A k \in StateLookups : StatusLookupHolds(execLog[k])

\* ---- resolution failures in the agent loop (Spec)
\* the request that the latest tool result answers
Answered(p) ==
  LET id == toolResults'[p][Len(toolResults'[p])].tool_use_id
  IN CHOOSE b \in Range(ToolUses(response[p])) : b.id = id

\* an execution step of invocation p: a tool result is pushed
Executes(p) == pc[p] = "tools" /\ Len(toolResults'[p]) = Len(toolResults[p]) + 1

\* the issue the request names is none of the snapshot's
UnknownIssue(b, c) ==
  /\ b.name \in IssueToolNames
  /\ Prop(b.input, "issue_identifier").type = "string"
  /\ \A j \in 1..Len(c.issues) :
       ~SameIgnoringCase(b.input.issue_identifier.val, c.issues[j].identifier)

\* the state the request names is none of the snapshot's
UnknownState(b, c) ==
  /\ b.name = "update_issue_status"
  /\ Prop(b.input, "status").type = "string"
  /\ \A j \in 1..Len(c.states) : ~SameStateName(b.input.status.val, c.states[j].name)

\* the assignee names of the model that no member's name contains
UnknownMemberNames == {"bob"}
UnknownMember(b, c) ==
  /\ b.name = "assign_issue"
  /\ Prop(b.input, "assignee_name").type = "string"
  /\ b.input.assignee_name.val \in UnknownMemberNames

\* the Failure of the resolution step that fails first
ResolutionFailure(b, c) ==
  IF UnknownIssue(b, c) THEN IssueNotFound(b.input.issue_identifier.val)
  ELSE IF UnknownState(b, c)
  THEN [error |-> "State \"" \o b.input.status.val \o "\" not found. Available: "
                  \o Join([j \in 1..Len(c.states) |-> c.states[j].name], ", ")]
  ELSE [error |-> "Team member \"" \o b.input.assignee_name.val
                  \o "\" not found. Available: "
                  \o Join([j \in 1..Len(c.members) |-> c.members[j].name], ", ")]

C23_Step ==
  \A p \in Procs :
    /\ Executes(p) =>
         LET b == Answered(p)
         IN (UnknownIssue(b, ctx[p]) \/ UnknownState(b, ctx[p]) \/ UnknownMember(b, ctx[p]))
              => /\ toolResults'[p][Len(toolResults'[p])]
                      = [type |-> "tool_result", tool_use_id |-> b.id,
                         content |-> ResolutionFailure(b, ctx[p])]
                 /\ UNCHANGED <<tracker, workspace, faults>>
                 /\ pc'[p] = "tools"
                 /\ outcome'[p] = outcome[p]
                 /\ outbox'[p] = outbox[p]
    \* once every request is answered the results go to the model
    /\ (pc[p] = "tools" /\ pc'[p] # "tools")
         => /\ pc'[p] = "call"
            /\ modelCalls'[p] = modelCalls[p] + 1
            /\ messages'[p][Len(messages'[p])] = [role |-> "user", content |-> toolResults[p]]
            /\ Len(toolResults[p]) = Len(ToolUses(response[p]))

C24_Step ==
  \A p \in Procs :
    \* the request executed is the first one without a result
    /\ Executes(p) =>
         /\ Len(toolResults[p]) < Len(ToolUses(response[p]))
         /\ toolResults'[p][Len(toolResults'[p])].tool_use_id
              = ToolUses(response[p])[Len(toolResults[p]) + 1].id
         /\ SubSeq(toolResults'[p], 1, Len(toolResults[p])) = toolResults[p]
         /\ modelCalls'[p] = modelCalls[p]
    \* the tracker is written only by the step that returns a request's outcome
    /\ (pc[p] = "tools" /\ <<tracker, workspace>>' # <<tracker, workspace>>)
         => Executes(p)
    \* callClaude is requested once every request has its outcome, in order
    /\ (pc[p] = "tools" /\ modelCalls'[p] # modelCalls[p])
         => /\ Len(toolResults[p]) = Len(ToolUses(response[p]))
            /\ \A k \in 1..Len(toolResults[p]) :
                 toolResults[p][k].tool_use_id = ToolUses(response[p])[k].id
            /\ UNCHANGED <<tracker, workspace>>

\* C24: when one model response requests several operations, all of them are
\* executed, strictly one after another in the order listed: the tracker
\* call(s) of request i+1 are issued only after request i has returned its
\* outcome, and the next model call is issued only after the last request has
\* returned
C24_ExecutedInListedOrder == [][C24_Step]_vars

\* both labels of one response were added, the known one first, and the
\* results went to the model
C24_Witness ==
  /\ script[1] = "lookups"
  /\ iterations[1] = 2
  /\ pc[1] = "call"
  /\ Len(toolResults[1]) = 2
  /\ toolResults[1][1].tool_use_id = ToolId(1, 1)
  /\ toolResults[1][2].tool_use_id = ToolId(1, 2)
  /\ IsSuccess(toolResults[1][1].content)
  /\ IsSuccess(toolResults[1][2].content)
  /\ Len(workspace.labels) = Len(TeamLabels) + 1

\* ---- two operations of one turn in either order (SpecExecutor)
\* the first two executions since deployment were made against one snapshot,
\* as two requests of one response are, both on issues of the snapshot and
\* with every request to Linear succeeding
PairOfOneTurn ==
  /\ Len(execLog) = 2
  /\ execLog[1].seq = 1
  /\ execLog[1].snapshot = execLog[2].snapshot
  /\ \A k \in 1..2 : /\ execLog[k].fate = NoFault
                      /\ k \in ResolvingEntries
                      /\ MatchedIssues(execLog[k]) # {}

\* the issues Linear holds after the same two executions in the other order
IssuesInOtherOrder ==
  LET c == execLog[1].snapshot
      first == executeTool(execLog[2].name, execLog[2].input, c,
                           Linear(InitTracker, InitWorkspace), NoFault)
      second == executeTool(execLog[1].name, execLog[1].input, c,
                            first.linear, NoFault)
  IN second.linear.issues

\* C25: for any two operations requested in the same model response, the
\* tracker state after executing both is the same whichever of the two is
\* listed first
C25_OrderWithinTurnIrrelevant ==
  PairOfOneTurn => tracker = IssuesInOtherOrder

\* ---- create_issue with child issues (SpecExecutor)
\* the issues Linear held before the k-th logged execution, where the log
\* tells: after the execution before it, or as deployed
IssuesBefore(k) == IF k > 1 THEN execLog[k - 1].issues ELSE InitTracker

\* the logged executions of create_issue with a list of child issues that
\* got as far as a request to Linear
CreationsWithChildren ==
  {k \in 1..Len(execLog) :
     /\ k > 1 \/ execLog[k].seq = 1
     /\ execLog[k].name = "create_issue"
     /\ Prop(execLog[k].input, "subtasks").type = "array"
     /\ Len(execLog[k].input.subtasks.val) > 0
     /\ execLog[k].requests > 0}

C26_Holds(k) ==
  LET e == execLog[k]
      before == IssuesBefore(k)
      subs == e.input.subtasks.val
      n == Len(subs)
      m == Len(e.issues) - Len(before)
      created == [j \in 1..m |-> e.issues[Len(before) + j]]
  IN \* nothing is rolled back
     /\ m >= 0 /\ m <= n + 1
     /\ SubSeq(e.issues, 1, Len(before)) = before
     \* the parent first, then the children in listed order under the parent
     /\ m >= 1 => /\ created[1].parent = Null
                  /\ created[1].title = e.input.title.val
     /\ \A j \in 2..m :
          /\ created[j].parent = created[1].id
          /\ created[j].project = created[1].project
          /\ created[j].title = subs[j - 1].title.val
     \* one request per issue, none repeated, none after the one that failed
     /\ IF IsSuccess(e.result)
        THEN /\ m = n + 1 /\ e.requests = n + 1
             /\ Len(e.result.subtasks) = n
        ELSE /\ IsFailure(e.result)
             /\ e.requests = m + 1
     /\ e.fate.failAt \in 1..(n + 1) => IsFailure(e.result) /\ m < e.fate.failAt

\* C26: in create_issue with n child issues, the parent is created first and
\* the children one by one in listed order, each with the parent's id and the
\* parent's resolved project; if the creation of child k fails, the parent and
\* children 1..k-1 remain created at the tracker (no rollback, no retry),
\* children k+1..n are never attempted, and the outcome returned is a Failure
C26_ChildrenInOrderNoRollback ==
  \A k \in CreationsWithChildren : C26_Holds(k)

\* a parent with two children was created in full, and then the same request
\* failed at its second child: the parent and the first child remain
C26_Witness ==
  /\ Len(execLog) = 2
  /\ CreationsWithChildren = {1, 2}
  /\ execLog[1].input.title = Str("Ship") /\ execLog[2].input.title = Str("Ship")
  /\ IsSuccess(execLog[1].result)
  /\ Len(execLog[1].issues) = Len(InitTracker) + 3
  /\ execLog[1].issues[Len(InitTracker) + 3].project = "Client Portal"
  /\ execLog[2].fate.failAt = 3
  /\ IsFailure(execLog[2].result)
  /\ Len(tracker) = Len(execLog[1].issues) + 2

\* ---- add_label appends (SpecExecutor)
\* the logged executions of add_label that succeeded on an issue
LabelAdditions ==
  {k \in 1..Len(execLog) :
     /\ k > 1 \/ execLog[k].seq = 1
     /\ execLog[k].name = "add_label"
     /\ k \in ResolvingEntries
     /\ MatchedIssues(execLog[k]) # {}
     /\ IsSuccess(execLog[k].result)}

\* the ids of the labels that the issue of the given identifier holds
LabelIdsOf(issues, identifier) ==
  UNION {{issues[i].labels[j].id : j \in 1..Len(issues[i].labels)} :
           i \in {h \in 1..Len(issues) : issues[h].identifier = identifier}}

LabelNamesOf(issues, identifier) ==
  UNION {Range(LabelNames(issues[i])) :
           i \in {h \in 1..Len(issues) : issues[h].identifier = identifier}}

\* the labels of the issue before the k-th logged execution are all on the
\* issue after it, and at most a label of the requested name has joined them
KeepsLabels(k) ==
  LET e == execLog[k]
      identifier == e.snapshot.issues[CHOOSE j \in MatchedIssues(e) : TRUE].identifier
      before == LabelIdsOf(IssuesBefore(k), identifier)
      after == LabelIdsOf(e.issues, identifier)
  IN /\ before \subseteq after
     /\ Cardinality(after \ before) <= 1
     /\ \A name \in LabelNamesOf(e.issues, identifier)
                      \ LabelNamesOf(IssuesBefore(k), identifier) :
          ToLowerCase(name) = ToLowerCase(e.input.label_name.val)

\* C27: add_label only appends: after a successful add_label on an issue,
\* every label the issue had at the tracker immediately before the call is
\* still on the issue, and the requested label is added only if it was not
\* already present; also when the issue's labels at the tracker were changed
\* earlier in the same turn or by an overlapping invocation
C27_AddLabelOnlyAppends ==
  \A k \in LabelAdditions : KeepsLabels(k)

\* ---- the ceiling of the loop (Spec)
\* the ids of the requests of a response
RequestIds(resp) == {b.id : b \in Range(ToolUses(resp))}

C28_State ==
  \A p \in Procs :
    /\ iterations[p] <= MAX_ITERATIONS
    /\ modelCalls[p] <= MAX_ITERATIONS + 1
    \* a response is executed in the round that its receipt began
    /\ pc[p] = "tools" => modelCalls[p] = iterations[p]
    \* past the loop, no result belongs to a request of the last response
    \* unless the round of that response was run
    /\ (pc[p] = "save" /\ modelCalls[p] = MAX_ITERATIONS + 1)
         => /\ iterations[p] = MAX_ITERATIONS
            /\ \A k \in 1..Len(toolResults[p]) :
                 toolResults[p][k].tool_use_id \notin RequestIds(response[p])

C28_Step ==
  \A p \in Procs :
    \* a round of execution begins with one more iteration
    /\ (pc[p] # "tools" /\ pc'[p] = "tools") => iterations'[p] = iterations[p] + 1
    \* the response received at the ceiling is not executed: its text is
    \* extracted and the exchange is saved next
    /\ (pc[p] = "call" /\ pc'[p] # "call" /\ iterations[p] = MAX_ITERATIONS
          /\ outcome'[p] # "error")
         => /\ pc'[p] = "save"
            /\ assistantText'[p] = ExtractText(response'[p])
            /\ UNCHANGED <<tracker, workspace, iterations, toolResults>>
    /\ (pc[p] = "save" /\ pc'[p] # "save")
         => /\ kvWrites'[p] = kvWrites[p] + 1
            /\ SubSeq(kvHistory'.value, Len(kvHistory'.value) - 1, Len(kvHistory'.value))
                 = << [role |-> "user", content |-> update[p].text],
                      [role |-> "assistant", content |-> assistantText[p]] >>
            /\ UNCHANGED <<tracker, workspace>>

\* C28: in any turn, whatever the model returns, at most MAX_ITERATIONS rounds
\* of operation execution and at most MAX_ITERATIONS + 1 model calls are made;
\* when the ceiling is reached, the operations requested by the last model
\* response are not executed and the turn proceeds directly to final-text
\* extraction and the memory append
C28_CeilingBoundsRoundsAndCalls == [](C28_State) /\ [][C28_Step]_vars

\* the eleventh response asked for a status update once more; it was not
\* executed and its text is about to be saved
C28_Witness ==
  /\ pc[1] = "save"
  /\ iterations[1] = MAX_ITERATIONS
  /\ modelCalls[1] = MAX_ITERATIONS + 1
  /\ response[1].stop_reason = "tool_use"
  /\ RequestIds(response[1]) = {ToolId(MAX_ITERATIONS, 1)}
  /\ assistantText[1] = "On it."
  /\ Len(toolResults[1]) = 1

\* ---- the store read by both handlers: chat turns and scheduled runs
\* the scheduled runs of the days in which the chat turns take place
MaxStoreRuns == 2

StoreEdit == today < MaxStoreRuns /\ TrackerEdited

StoreBriefing == today < MaxStoreRuns /\ ScheduledBriefing

NextStore ==
  \/ StoreEdit
  \/ StoreBriefing
  \/ \E p \in SeqProcs :
       \/ ReceiveText(p, MemoryTexts, {"status"}, MaxTurns)
       \/ FetchCompletes(p)
       \/ FetchContext(p)
       \/ FetchFails(p)
       \/ LoadHistory(p)
       \/ ModelResponds(p, MemoryResponses)
       \/ ModelFails(p)
       \/ SaveHistory(p)
       \/ SendReply(p)

SpecStore == Init /\ [][NextStore]_vars

\* ---- failing reads of the store (SpecStore)
\* the step in which getHistory caught a failing read
HistoryReadFails(p) ==
  pc[p] = "load" /\ pc'[p] # "load" /\ faults' = faults + 1

\* the turn runs without the history that is stored: with one turn at a time
\* and no other writer, only a failed read leaves the two apart
HistoryLost(p) ==
  /\ pc[p] \in {"call", "save"}
  /\ history[p] = << >>
  /\ kvHistory.present /\ kvHistory.value # << >>

\* the step of a run on issues whose read of the record failed
CacheReadFails ==
  /\ today' = today + 1
  /\ bKind' \in {"hit", "miss", "rejected"}
  /\ kvCache.present
  /\ ~bRead'.present

C29_Step ==
  /\ \A p \in SeqProcs :
       /\ HistoryReadFails(p)
            => /\ history'[p] = << >>
               /\ messages'[p] = << [role |-> "user", content |-> update[p].text] >>
               /\ pc'[p] = "call"
               /\ outcome'[p] = "running"
               /\ outbox'[p] = << >>
       /\ (HistoryLost(p) /\ pc[p] = "save" /\ pc'[p] # "save")
            => /\ pc'[p] = "send"
               /\ kvHistory' = [present |-> TRUE,
                                 value |-> << [role |-> "user", content |-> update[p].text],
                                              [role |-> "assistant", content |-> assistantText[p]] >>]
       /\ (pc[p] = "send" /\ pc'[p] # "send")
            => /\ outcome'[p] = "replied"
               /\ outbox'[p] = << assistantText[p] >>
  /\ CacheReadFails
       => /\ bKind' \in {"miss", "rejected"}
          /\ bModelCalls' = 1
          /\ bKind' = "miss"
               => /\ kvCache' = [present |-> TRUE,
                                  value |-> MissRecord(hashIssues(tracker), genText', today')]
                  /\ bSent' = << genText' >>
          \* the model call failed: nothing is written or sent
          /\ bKind' = "rejected" => (kvCache' = kvCache /\ bSent' = << >>)

\* C29: a failing read of the persisted store is treated as empty state and
\* never as an error: if reading the conversation history fails, the turn runs
\* with an empty history and completes normally; if reading the summary record
\* fails, the run behaves as if no prior record existed and regenerates; in both
\* cases the subsequent write replaces whatever was stored
C29_FailedReadIsEmptyState == [][C29_Step]_vars

\* the second turn lost the first exchange and was answered; the second run
\* regenerated the briefing of unchanged issues
C29_Witness ==
  /\ pc[1] = "send"
  /\ outcome[1] = "running"
  /\ saved = 2
  /\ Len(kvHistory.value) = 2
  /\ kvHistory.value[1].content = "m2"
  /\ bKind = "miss"
  /\ ~bRead.present
  /\ sameRuns = 2
  /\ kvCache.value.unchangedDays = 0
  /\ faults = 2

\* ---- scripts/daily-briefing.js: the script the Worker's briefing was ported from
\* fetchLinearIssues: the active issues, enriched with names and defaults
fetchLinearIssues(trk) ==
  [k \in 1..Len(trk) |->
     [identifier |-> trk[k].identifier,
      title |-> trk[k].title,
      priority |-> trk[k].priority,
      dueDate |-> trk[k].dueDate,
      status |-> IF trk[k].state = Null THEN "Unknown" ELSE trk[k].state,
      project |-> IF trk[k].project = Null THEN "No Project" ELSE trk[k].project,
      assignee |-> IF trk[k].assignee = Null THEN "Unassigned" ELSE trk[k].assignee,
      labels |-> LabelNames(trk[k])]]

\* hashIssues of the script, over the enriched issues
scriptHashIssues(issues) ==
  LET normalized == [k \in 1..Len(issues) |->
        [id |-> issues[k].identifier, status |-> issues[k].status,
         priority |-> issues[k].priority, assignee |-> issues[k].assignee,
         project |-> issues[k].project,
         labels |-> SortLabels(issues[k].labels),
         dueDate |-> issues[k].dueDate]]
  IN SortByRank(normalized,
                [k \in 1..Len(normalized) |-> IdRank(normalized[k].id)])

\* hash: null, which is the fingerprint of no list of issues
NullHash == << >>

\* readCache: the parsed file, and null when it is absent or unreadable
readCache(file, readable) ==
  IF readable THEN file ELSE [present |-> FALSE]

\* writeCache({ hash: null, briefing, unchangedDays: 0, lastRun: today })
EmptyRecord(day) ==
  [present |-> TRUE,
   value |-> [hash |-> NullHash, briefing |-> NoIssuesText, unchangedDays |-> 0,
              lastRun |-> day]]

\* main: one run of the script on the day of the Worker's last run. fetchOk,
\* readable and modelOk are the fates of the Linear fetch, the read of the
\* cache file and the Anthropic call; a rejection ends the process
main ==
  /\ scriptRun.day < today
  /\ \E fetchOk \in BOOLEAN, readable \in BOOLEAN, modelOk \in BOOLEAN,
        text \in SummaryTexts :
       LET day == today
           issues == fetchLinearIssues(tracker)
           currentHash == scriptHashIssues(issues)
           cache == readCache(fileCache, readable)
           hit == cache.present /\ cache.value.hash = currentHash
           reached == IF ~fetchOk \/ Len(issues) = 0 THEN "fetch"
                      ELSE IF hit THEN "read" ELSE "model"
           failed == (IF fetchOk THEN 0 ELSE 1) + (IF readable THEN 0 ELSE 1)
                     + (IF modelOk THEN 0 ELSE 1)
       IN /\ faults + failed <= MaxFaults
          /\ faults' = faults + failed
          /\ reached = "fetch" => (readable /\ modelOk)
          /\ reached = "read" => modelOk
          \* the model returns to the script what it returned to the Worker
          /\ text = IF reached = "model" /\ modelOk /\ bKind = "miss" THEN genText
                    ELSE IF reached = "model" /\ modelOk THEN text
                    ELSE CHOOSE t \in SummaryTexts : TRUE
          /\ IF ~fetchOk
             THEN /\ scriptRun' = [day |-> day, kind |-> "fetch_failed", text |-> ""]
                  /\ UNCHANGED fileCache
             ELSE IF Len(issues) = 0
             THEN /\ scriptRun' = [day |-> day, kind |-> "no_issues", text |-> NoIssuesText]
                  /\ fileCache' = EmptyRecord(day)
             ELSE IF hit
             THEN LET unchangedDays == cache.value.unchangedDays + 1
                  IN /\ scriptRun' = [day |-> day, kind |-> "hit",
                                      text |-> IF unchangedDays >= STALE_DAYS_THRESHOLD
                                               THEN EscalationText
                                               ELSE cache.value.briefing]
                     /\ fileCache' = [present |-> TRUE,
                                      value |-> [hash |-> currentHash,
                                                 briefing |-> cache.value.briefing,
                                                 unchangedDays |-> unchangedDays,
                                                 lastRun |-> day]]
             ELSE IF ~modelOk
             THEN /\ scriptRun' = [day |-> day, kind |-> "rejected", text |-> ""]
                  /\ UNCHANGED fileCache
             ELSE /\ scriptRun' = [day |-> day, kind |-> "miss", text |-> text]
                  /\ fileCache' = [present |-> TRUE,
                                   value |-> [hash |-> currentHash, briefing |-> text,
                                              unchangedDays |-> 0, lastRun |-> day]]
  /\ UNCHANGED <<kvHistory, kvCache, tracker, turnNo, pc, update, ctx, history,
                 messages, response, iterations, blockIdx, toolResults,
                 assistantText, outbox, outcome, modelCalls, kvWrites, script,
                 allToolUse, saved, streak>>
  /\ UNCHANGED briefingVars
  /\ UNCHANGED functionVars
  /\ UNCHANGED webhookVars
  /\ UNCHANGED fetched
  /\ UNCHANGED workspace

\* ---- the Worker and the script run side by side: each day the Worker runs,
\* then the script, on the same issues and with every call succeeding
BothRan == scriptRun.day = today

PortedRun == BothRan /\ ScheduledBriefing /\ faults' = faults

OriginalRun == main /\ faults' = faults

IssuesEdited == BothRan /\ TrackerEdited

NextPort ==
  \/ IssuesEdited
  \/ PortedRun
  \/ OriginalRun

SpecPort == Init /\ [][NextPort]_vars

\* C30: handleDailyBriefing implements the caching logic of the script's main:
\* for every sequence of runs over the same snapshots (empty or not), the same
\* prior record and the same model outputs, both make the same decision
\* (regenerate, reuse, escalate, or nothing-active), emit the same text and
\* leave the same stored record {hash, briefing, unchangedDays, lastRun}
C30_WorkerMatchesScript ==
  (BothRan /\ today > 0)
    => /\ bKind = scriptRun.kind
       /\ bSent = << scriptRun.text >>
       /\ kvCache = fileCache

\* ---- the shape of the stored history (SpecMemory)
\* user, assistant, user, assistant, ...: whole pairs only
Alternates(h) ==
  /\ Len(h) % 2 = 0
  /\ \A k \in 1..Len(h) :
       h[k].role = IF k % 2 = 1 THEN "user" ELSE "assistant"

\* C31: starting from an empty store, after any sequence of completed turns,
\* failed turns and /clear commands, the stored history has even length and
\* strictly alternates user, assistant, beginning with a user entry; hence the
\* message list sent to the model always begins with a user message
C31_HistoryAlternates ==
  /\ Alternates(kvHistory.value)
  /\ \A p \in Procs :
       pc[p] = "call" => /\ messages[p] # << >>
                         /\ messages[p][1].role = "user"
                         /\ Alternates(history[p])

\* a full window that has been truncated is sent with the next user text,
\* after a turn that failed
C31_Witness ==
  /\ pc[1] = "call"
  /\ streak > MAX_HISTORY_PAIRS
  /\ Len(messages[1]) = 2 * MAX_HISTORY_PAIRS + 1
  /\ messages[1][1] = [role |-> "user", content |-> "m" \o ToString(saved - MAX_HISTORY_PAIRS + 1)]
  /\ faults > 0

\* ---- overlapping invocations: waitUntil(processMessage) returns to Telegram
\* at once, so the next update is handled while the last one is in flight
\* invocations explored by the specification of overlapping invocations
MaxRaceTurns == 3

\* the k-th invocation is the text "m<k>" or a /clear
RaceTexts == {"m" \o ToString(turnNo + 1), "/clear"}

\* the model answers the text of the turn
RaceResponses(p) ==
  { [stop_reason |-> "end_turn", hasContent |-> TRUE,
     content |-> << TextBlock("re: " \o update[p].text) >>] }

NextRace ==
  \E p \in Procs :
    \/ ReceiveText(p, RaceTexts, {"status"}, MaxRaceTurns)
    \/ HandleCommand(p, RaceTexts, MaxRaceTurns)
    \/ FetchCompletes(p)
    \/ FetchContext(p)
    \/ FetchFails(p)
    \/ LoadHistory(p)
    \/ ModelResponds(p, RaceResponses(p))
    \/ ModelFails(p)
    \/ SaveHistory(p)
    \/ SendReply(p)

SpecRace == Init /\ [][NextRace]_vars

\* ---- conversation memory under overlapping turns (SpecRace)
\* the invocation of p was a chat turn that has saved its exchange
Completed(p) == kvWrites[p] = 1

\* the exchange of the turn of p
Pair(p) == << [role |-> "user", content |-> update[p].text],
              [role |-> "assistant", content |-> assistantText[p]] >>

Contains(h, pair) ==
  \E k \in 1..(Len(h) - 1) : h[k] = pair[1] /\ h[k + 1] = pair[2]

\* two chat turns, one by each invocation slot, have completed and every
\* read and call succeeded
TwoTurnsDone ==
  /\ turnNo = 2
  /\ faults = 0
  /\ \A p \in Procs : Completed(p)

Loads(p) == pc[p] = "load" /\ pc'[p] = "call"

Saves(p) == pc[p] = "save" /\ pc'[p] = "send"

\* the statement as it was made: after any interleaving of two chat turns the
\* stored history contains the pair of both turns
C32_BothPairsStored ==
  TwoTurnsDone => \A p \in Procs : Contains(kvHistory.value, Pair(p))

C32_State ==
  TwoTurnsDone
    => /\ Len(kvHistory.value) \in {2, 4}
       /\ \E p \in Procs :
            SubSeq(kvHistory.value, Len(kvHistory.value) - 1, Len(kvHistory.value)) = Pair(p)

C32_Step ==
  \A p \in Procs :
    \* a read that succeeds returns every pair that is stored
    /\ (Loads(p) /\ faults' = faults)
         => \A q \in Procs \ {p} :
              (Completed(q) /\ Contains(kvHistory.value, Pair(q)))
                => Contains(history'[p], Pair(q))
    \* a save stores the pair of its turn, and of another turn the pair it loaded
    /\ Saves(p)
         => /\ Contains(kvHistory'.value, Pair(p))
            /\ \A q \in Procs \ {p} :
                 Completed(q)
                   => (Contains(kvHistory'.value, Pair(q))
                         <=> Contains(history[p], Pair(q)))

\* C32 (amended): after two chat turns the stored history ends with the pair of
\* the turn that saved last, and holds the pair of the other turn only if the
\* turn that saved last had loaded the history after the other saved it; when
\* both load before either saves, the pair of the turn that saved first is lost
C32_LastSaverWins == [](C32_State) /\ [][C32_Step]_vars

\* both turns completed without a failure and one exchange is stored
C32_Witness ==
  /\ TwoTurnsDone
  /\ Len(kvHistory.value) = 2
  /\ \A p \in Procs : pc[p] = "idle" /\ outcome[p] = "replied"

\* ---- /clear under overlapping turns (SpecRace)
\* the last invocation of q was a /clear, and it was acknowledged
ClearAcknowledged(q) ==
  /\ update[q].text = "/clear"
  /\ outcome[q] = "command"
  /\ outbox[q] = << ClearedText >>

\* p holds a history that it loaded before the /clear that emptied the store
StaleAfterClear(p) ==
  /\ pc[p] = "save"
  /\ history[p] # << >>
  /\ kvHistory.value = << >>
  /\ \E q \in Procs \ {p} : ClearAcknowledged(q)

Entries(h) == {h[k] : k \in 1..Len(h)}

C33_OriginalStep ==
  \A p \in Procs :
    (StaleAfterClear(p) /\ Saves(p))
      => Entries(history[p]) \cap Entries(kvHistory'.value) = {}

Clears == turnNo' = turnNo + 1 /\ pc' = pc /\ faults' = faults

C33_Step ==
  \* the acknowledged /clear leaves nothing stored
  /\ Clears => /\ kvHistory'.value = << >>
               /\ \E q \in Procs : ClearAcknowledged(q)'
  /\ \A p \in Procs :
    \* a save stores what its turn loaded and the exchange of the turn only
    /\ Saves(p)
         => /\ Entries(kvHistory'.value) \subseteq Entries(history[p]) \cup Entries(Pair(p))
            /\ history[p] = << >> => kvHistory'.value = Pair(p)
    \* a turn that loaded before the /clear stores what it loaded again
    /\ (StaleAfterClear(p) /\ Saves(p))
         => kvHistory'.value = history[p] \o Pair(p)

Escalated ==
  kvCache.present /\ kvCache.value.unchangedDays >= STALE_DAYS_THRESHOLD

C34_State ==
  /\ bKind = "hit" => (bSent = << EscalationText >> <=> Escalated)
  /\ bKind = "miss" => (bSent # << EscalationText >> /\ ~Escalated)

C34_Step ==
  (RunStep /\ Escalated /\ Len(tracker) > 0 /\ bKind' # "fetch_failed") =>
    LET h == hashIssues(tracker)
    IN \* the run reads the record and finds its fingerprint in it
       /\ (bRead' = kvCache /\ kvCache.value.hash = h)
            => /\ bKind' = "hit"
               /\ bSent' = << EscalationText >>
               /\ bModelCalls' = 0
               /\ kvCache'.value = [kvCache.value EXCEPT
                                      !.unchangedDays = @ + 1, !.lastRun = today']
       \* a summary is sent again by a run that regenerates it only
       /\ (bSent' # << >> /\ bSent' # << EscalationText >>)
            => /\ bKind' = "miss"
               /\ ~bRead'.present \/ bRead'.value.hash # h
               /\ bModelCalls' = 1
               /\ bSent' = << genText' >>
               /\ kvCache'.value = MissRecord(h, genText', today')

\* C34: once a run has sent the escalation message, every later run on a
\* non-empty snapshot that finds its fingerprint in the stored record sends the
\* escalation message too, the unchanged count growing by one; a summary is
\* sent again only by a run that did not find its fingerprint in the record it
\* read and regenerated the summary, also when the snapshot is back at a
\* fingerprint it had before (a read that fails finds no record)
C34_EscalationPersists == [](C34_State) /\ [][C34_Step]_vars

\* the escalation message sent for the second day running
C34_Witness ==
  /\ bKind = "hit"
  /\ bSent = << EscalationText >>
  /\ bRead.value.unchangedDays = STALE_DAYS_THRESHOLD
  /\ kvCache.value.unchangedDays = STALE_DAYS_THRESHOLD + 1
  /\ faults = 0

\* ---- a model call that fails during regeneration (SpecBriefing)
\* the run that reached the model and was rejected by it
Rejects == RunStep /\ bKind' = "rejected"

C35_State ==
  kvCache.present => kvCache.value.briefing \in SummaryTexts

C35_Step ==
  LET h == hashIssues(tracker)
  IN \* nothing is written and nothing is sent
     /\ Rejects
          => /\ Len(tracker) > 0
             /\ ~CacheHit(bRead', h)
             /\ bModelCalls' = 1
             /\ kvCache' = kvCache
             /\ bSent' = << >>
     \* the run after it, on issues the record still does not hold
     /\ (RunStep /\ bKind = "rejected" /\ Len(tracker) > 0
           /\ ~CacheHit(kvCache, h) /\ bKind' # "fetch_failed")
          => /\ bKind' \in {"miss", "rejected"}
             /\ bModelCalls' = 1
             /\ bKind' = "miss" => kvCache'.value = MissRecord(h, genText', today')

\* C35: if the model call fails during a cache-miss run, the stored record is
\* left exactly as it was and no summary is sent, so the next run over the
\* same snapshot is again a miss and calls the model again; a record with the
\* new fingerprint but without a generated text is never stored
C35_RejectedRunWritesNothing == [](C35_State) /\ [][C35_Step]_vars

\* the second run was rejected by the model: the record of the first run is
\* still stored and nothing was sent
C35_Witness ==
  /\ bKind = "rejected"
  /\ today = 2
  /\ faults = 1
  /\ bSent = << >>
  /\ bModelCalls = 1
  /\ kvCache.present
  /\ bRead = kvCache
  /\ kvCache.value.lastRun = 1
  /\ ~CacheHit(kvCache, hashIssues(tracker))
====
